---- MODULE Spec2Model ----
(***************************************************************************)
(* A model of mnxconverter: the MusicXML reader (mnxconverter/musicxml.py) *)
(* with the score model it fills (mnxconverter/score.py), the import       *)
(* pipeline in front of it and the command line (convert.py) around it.    *)
(*                                                                         *)
(* Python objects live in heaps (sequences of records indexed by an        *)
(* allocation number); a reference is a record [k |-> kind, id |-> n].     *)
(* A Python exception is the value of the field `status`: "ok" while none  *)
(* was raised, else the name of the exception class that escaped.          *)
(* XML elements are records with a field `tag`; a text that the code       *)
(* hands to int() is a record [kind, val] with kind "int" (parses),        *)
(* "bad" (ValueError), "empty" (the element has no text: None) or          *)
(* "missing" (the element or attribute is not there).                      *)
(***************************************************************************)
EXTENDS Integers, Sequences, FiniteSets, TLC

\* ------------------------------------------------------------------ bounds
MaxParts == 2          \* <score-part> elements of the part-list
MaxMeasures == 2       \* <measure> elements of the document
MaxMeasureParts == 2   \* <part> elements inside one <measure>
MaxElems == 3          \* children of <part> elements read in one document

\* --------------------------------------------------------------- constants
DEFAULT_KEYSIG == 0
DIVISION_DURATION_WHOLE_NOTE == 4
DEFAULT_SLUR_NUMBER == 1
DEFAULT_BEAM_NUMBER == 1

\* ----------------------------------------------------------------- helpers
Put(f, k, v) == [p \in (DOMAIN f) \cup {k} |-> IF p = k THEN v ELSE f[p]]
Drop(f, k) == [p \in (DOMAIN f) \ {k} |-> f[p]]

RECURSIVE Gcd(_, _)
Gcd(a, b) == IF b = 0 THEN a ELSE Gcd(b, a % b)

Abs(n) == IF n < 0 THEN -n ELSE n

\* fractions.Fraction(n, d), d # 0: the normalised pair <<numerator, denominator>>
Fraction(n, d) ==
    LET g == Gcd(Abs(n), Abs(d))
        s == IF d < 0 THEN -1 ELSE 1
    IN  <<(s * n) \div g, (s * d) \div g>>

NoneFraction == <<0, 0>>

Ref(kind, n) == [k |-> kind, id |-> n]
NoneRef == [k |-> "None", id |-> 0]

TInt(v) == [kind |-> "int", val |-> v]
TBad == [kind |-> "bad", val |-> 0]
TEmpty == [kind |-> "empty", val |-> 0]
TMissing == [kind |-> "missing", val |-> 0]

\* int(text): the value, ValueError for a text that is no number, TypeError for None
PyInt(t) ==
    CASE t.kind = "int" -> [status |-> "ok", val |-> t.val]
      [] t.kind = "bad" -> [status |-> "ValueError", val |-> 0]
      [] OTHER -> [status |-> "TypeError", val |-> 0]

Raise(r, exc) == [r EXCEPT !.status = exc]

RHYTHM_TYPES ==
    [t \in {"breve", "whole", "half", "quarter", "eighth", "16th"} |->
        CASE t = "breve" -> <<2, 1>>
          [] t = "whole" -> <<1, 1>>
          [] t = "half" -> <<1, 2>>
          [] t = "quarter" -> <<1, 4>>
          [] t = "eighth" -> <<1, 8>>
          [] t = "16th" -> <<1, 16>>]

ACCIDENTAL_TYPES_FOR_IMPORT == {"sharp", "natural", "flat", "double-sharp",
    "sharp-sharp", "flat-flat", "natural-sharp", "natural-flat"}

\* score.Pitch, and None for a Note that has none
Pitch(step, octave, alter) == [step |-> step, octave |-> octave, alter |-> alter]
NonePitch == [step |-> "None", octave |-> 0, alter |-> 0]

\* a == b on two values that are Pitch or None: Pitch.__eq__ reads other.step, so a
\* Pitch compared with None (on either side: None == p falls back to p.__eq__(None))
\* raises AttributeError
PitchEq(a, b) ==
    IF a = NonePitch /\ b = NonePitch THEN "True"
    ELSE IF a = NonePitch \/ b = NonePitch THEN "AttributeError"
    ELSE IF a.step = b.step /\ a.octave = b.octave /\ a.alter = b.alter THEN "True"
    ELSE "False"

\* score.RhythmicDuration and its __eq__
RhythmicDuration(frac, dots) == [frac |-> frac, dots |-> dots]
RhythmicDurationEq(a, b) == a.frac = b.frac /\ a.dots = b.dots

NoneRatio == [outer_numerator |-> 0, outer_denominator |-> 0,
              inner_numerator |-> 0, inner_denominator |-> 0]

\* --------------------------------------------------------------- variables
VARIABLES
    pc,            \* where the conversion stands
    status,        \* "ok", or the exception that ended the conversion
    score_parts,   \* score.parts: <<[part_id, transpose]>>
    bars,          \* score.bars: <<Bar>>; bar_parts maps part ids to BarParts
    bar_part,      \* parse_measure_part's local BarPart
    part_idx,      \* parse_measures' part_idx in the current <measure>
    position,      \* parse_measure_part's local position
    part_divisions, open_ties, current_beams, open_beams, open_tuplets,
    current_tuplets, open_slurs, complete_slurs, current_grace_note_group,
    next_event_id, next_note_id, current_octave_shift, complete_octave_shifts,
    notes,         \* heap of Note objects, one per <note> read; the Rest that a
                   \* <note> with <rest> makes is Ref("Rest", n) for the same n
    events,        \* heap of Event objects; an Event's index is its event id
    seqs,          \* heap of Sequence objects
    tuplets,       \* heap of Tuplet objects
    graces,        \* heap of GraceNoteGroup objects
    beams,         \* heap of Beam objects
    slurs,         \* heap of Slur objects
    nelems,        \* children of <part> elements read so far
    last,          \* the input the last step read
    prev,          \* the reader's tables before the last step
    beam_loop,     \* process_beams' locals: the loop indices and pending_ends
    imp            \* get_score's and convert.py's locals

vars == <<pc, status, score_parts, bars, bar_part, part_idx, position,
          part_divisions, open_ties, current_beams, open_beams, open_tuplets,
          current_tuplets, open_slurs, complete_slurs, current_grace_note_group,
          next_event_id, next_note_id, current_octave_shift,
          complete_octave_shifts, notes, events, seqs, tuplets, graces,
          beams, slurs, nelems, last, prev, beam_loop, imp>>

\* The reader and the score as one record, for the operators that model methods
Reader ==
    [status |-> status, score_parts |-> score_parts, bars |-> bars,
     bar_part |-> bar_part, position |-> position,
     part_divisions |-> part_divisions, open_ties |-> open_ties,
     current_beams |-> current_beams, open_beams |-> open_beams,
     open_tuplets |-> open_tuplets, current_tuplets |-> current_tuplets,
     open_slurs |-> open_slurs, complete_slurs |-> complete_slurs,
     current_grace_note_group |-> current_grace_note_group,
     next_event_id |-> next_event_id, next_note_id |-> next_note_id,
     current_octave_shift |-> current_octave_shift,
     complete_octave_shifts |-> complete_octave_shifts,
     notes |-> notes, events |-> events, seqs |-> seqs,
     tuplets |-> tuplets, graces |-> graces,
     beams |-> beams, slurs |-> slurs]

Install(r) ==
    /\ status' = r.status
    /\ score_parts' = r.score_parts
    /\ bars' = r.bars
    /\ bar_part' = r.bar_part
    /\ position' = r.position
    /\ part_divisions' = r.part_divisions
    /\ open_ties' = r.open_ties
    /\ current_beams' = r.current_beams
    /\ open_beams' = r.open_beams
    /\ open_tuplets' = r.open_tuplets
    /\ current_tuplets' = r.current_tuplets
    /\ open_slurs' = r.open_slurs
    /\ complete_slurs' = r.complete_slurs
    /\ current_grace_note_group' = r.current_grace_note_group
    /\ next_event_id' = r.next_event_id
    /\ next_note_id' = r.next_note_id
    /\ current_octave_shift' = r.current_octave_shift
    /\ complete_octave_shifts' = r.complete_octave_shifts
    /\ notes' = r.notes
    /\ events' = r.events
    /\ seqs' = r.seqs
    /\ tuplets' = r.tuplets
    /\ graces' = r.graces
    /\ beams' = r.beams
    /\ slurs' = r.slurs

\* What a property of one step compares the step's result with
Tables ==
    [open_ties |-> open_ties, open_slurs |-> open_slurs,
     complete_slurs |-> complete_slurs, open_beams |-> open_beams,
     current_tuplets |-> current_tuplets, notes |-> notes, events |-> events,
     seqs |-> seqs, slurs |-> slurs, graces |-> graces,
     current_grace_note_group |-> current_grace_note_group,
     current_octave_shift |-> current_octave_shift,
     complete_octave_shifts |-> complete_octave_shifts]

NoBarPart == [sequences |-> <<>>, clefs |-> <<>>]
NoShift == [open |-> FALSE, shift_type |-> "", note_list |-> <<>>]

\* ------------------------------------------------------------ note parsing
\* parse_note's locals; r is the reader, note the Note object made on entry
NoteLocals(r, nid) ==
    [r |-> r, note |-> nid, sequence_id |-> "", is_chord |-> FALSE,
     is_grace |-> FALSE, is_rest |-> FALSE,
     duration |-> [some |-> FALSE, val |-> 0], note_type |-> NoneFraction,
     num_dots |-> 0, beams |-> <<>>, closed_tuplet_numbers |-> <<>>,
     event_markings |-> <<>>, time_mod |-> NoneRatio,
     sequence |-> 0, event |-> 0, event_item |-> NoneRef, result |-> 0]

Fail(L, exc) == [L EXCEPT !.r.status = exc]

NewNote(note_id) ==
    [note_id |-> note_id, pitch |-> NonePitch, rendered_acc |-> "None",
     tie_end_note |-> 0, is_referenced |-> FALSE,
     \* parse_note's locals rhythmic_duration and sequence for this <note>, kept
     \* for the properties stated below
     rhythmic_duration |-> RhythmicDuration(NoneFraction, 0), sequence |-> 0]

\* MusicXMLReader.parse_beam: (number, text)
ParseBeam(el) ==
    LET n == IF el.number.kind = "missing" THEN [status |-> "ok", val |-> DEFAULT_BEAM_NUMBER]
             ELSE PyInt(el.number)
    IN  IF n.status = "ValueError" THEN [status |-> "NotationDataError", beam |-> <<0, "">>]
        ELSE [status |-> n.status, beam |-> <<n.val, el.text>>]

\* MusicXMLReader.parse_duration: an unparsable text counts as 0
ParseDuration(el) ==
    LET n == PyInt(el.digits)
    IN  IF n.status = "ValueError" THEN [status |-> "ok", val |-> 0] ELSE n

\* MusicXMLReader.parse_type
ParseType(el) ==
    IF el.text \in DOMAIN RHYTHM_TYPES
    THEN [status |-> "ok", frac |-> RHYTHM_TYPES[el.text]]
    ELSE [status |-> "NotationDataError", frac |-> NoneFraction]

\* MusicXMLReader.parse_pitch, its children in the order step, alter, octave
ParsePitch(el) ==
    LET alter == IF el.alter.kind = "missing" THEN [status |-> "ok", val |-> 0]
                 ELSE PyInt(el.alter)
        octave == IF el.octave.kind = "missing" THEN [status |-> "ok", val |-> 0]
                  ELSE PyInt(el.octave)
    IN  IF alter.status = "ValueError" THEN [status |-> "NotationDataError", pitch |-> NonePitch]
        ELSE IF alter.status # "ok" THEN [status |-> alter.status, pitch |-> NonePitch]
        ELSE IF octave.status = "ValueError"
           THEN [status |-> "NotationDataError", pitch |-> NonePitch]
        ELSE IF octave.status # "ok" THEN [status |-> octave.status, pitch |-> NonePitch]
        ELSE IF el.step = "None" \/ el.octave.kind = "missing"
           THEN [status |-> "NotationDataError", pitch |-> NonePitch]
        ELSE [status |-> "ok", pitch |-> Pitch(el.step, octave.val, alter.val)]

\* `el.text and el.text.isdigit()` of parse_time_modification
IsDigitText(t) == t.kind = "int" /\ t.val >= 0

\* a ratio whose two fractions are brought to lowest terms
ParseTimeModificationReduced(el, note_type) ==
    LET normal_type == IF el.normal_type = "missing" THEN note_type
                       ELSE RHYTHM_TYPES[el.normal_type]
        outer == Fraction(el.normal.val * normal_type[1], normal_type[2])
        inner == Fraction(el.actual.val * normal_type[1], normal_type[2])
    IN  [status |-> "ok",
         ratio |-> [outer_numerator |-> outer[1], outer_denominator |-> outer[2],
                    inner_numerator |-> inner[1], inner_denominator |-> inner[2]]]

\* MusicXMLReader.parse_time_modification
ParseTimeModification(el, note_type) ==
    LET bad == \/ (el.actual.kind # "missing" /\ ~IsDigitText(el.actual))
               \/ (el.normal.kind # "missing" /\ ~IsDigitText(el.normal))
        given == IF el.normal_type = "missing" THEN [status |-> "ok", frac |-> NoneFraction]
                 ELSE ParseType([text |-> el.normal_type])
        normal_type == IF given.frac = NoneFraction THEN note_type ELSE given.frac
    IN  IF bad \/ given.status # "ok"
           THEN [status |-> "NotationDataError", ratio |-> NoneRatio]
        ELSE IF normal_type = NoneFraction
           THEN [status |-> "NotationDataError", ratio |-> NoneRatio]
        ELSE IF el.actual.kind = "missing" \/ el.normal.kind = "missing"
           \* None * int
           THEN [status |-> "TypeError", ratio |-> NoneRatio]
        ELSE [status |-> "ok",
              ratio |-> [outer_numerator |-> el.normal.val * normal_type[1],
                         outer_denominator |-> normal_type[2],
                         inner_numerator |-> el.actual.val * normal_type[1],
                         inner_denominator |-> normal_type[2]]]

\* MusicXMLReader.parse_articulations: the markings one child adds
ArticulationMarkings(tag) ==
    CASE tag = "accent" -> <<[k |-> "AccentMarking", marks |-> 0]>>
      [] tag = "breath-mark" -> <<[k |-> "BreathMarking", marks |-> 0]>>
      [] tag = "detached-legato" -> <<[k |-> "StaccatoMarking", marks |-> 0],
                                      [k |-> "TenutoMarking", marks |-> 0]>>
      [] tag = "soft-accent" -> <<[k |-> "SoftAccentMarking", marks |-> 0]>>
      [] tag = "spiccato" -> <<[k |-> "SpiccatoMarking", marks |-> 0]>>
      [] tag = "staccatissimo" -> <<[k |-> "StaccatissimoMarking", marks |-> 0]>>
      [] tag = "staccato" -> <<[k |-> "StaccatoMarking", marks |-> 0]>>
      [] tag = "stress" -> <<[k |-> "StressMarking", marks |-> 0]>>
      [] tag = "strong-accent" -> <<[k |-> "StrongAccentMarking", marks |-> 0]>>
      [] tag = "tenuto" -> <<[k |-> "TenutoMarking", marks |-> 0]>>
      [] tag = "unstress" -> <<[k |-> "UnstressMarking", marks |-> 0]>>
      [] OTHER -> <<>>

RECURSIVE ParseArticulations(_, _, _)
ParseArticulations(tags, i, event_markings) ==
    IF i > Len(tags) THEN event_markings
    ELSE ParseArticulations(tags, i + 1, event_markings \o ArticulationMarkings(tags[i]))

\* MusicXMLReader.parse_ornaments, for an <ornaments> holding one <tremolo>
ParseOrnaments(el, event_markings) ==
    IF el.type \in {"single", "missing"}
    THEN LET n == PyInt(el.digits)
         IN  IF n.status = "ValueError"
                THEN [status |-> "NotationDataError", event_markings |-> event_markings]
             ELSE IF n.status # "ok"
                THEN [status |-> n.status, event_markings |-> event_markings]
             ELSE [status |-> "ok",
                   event_markings |-> Append(event_markings,
                                        [k |-> "TremoloMarking", marks |-> n.val])]
    ELSE [status |-> "ok", event_markings |-> event_markings]

\* the slur number of parse_slur: 1 when it is missing or does not parse
SlurNumber(el) ==
    LET n == IF el.number.kind = "missing" THEN [status |-> "ok", val |-> DEFAULT_SLUR_NUMBER]
             ELSE PyInt(el.number)
    IN  IF n.status = "ok" THEN n.val ELSE DEFAULT_SLUR_NUMBER

SLUR_SIDES_FOR_IMPORT == [p \in {"above", "below"} |->
                            IF p = "above" THEN "SIDE_UP" ELSE "SIDE_DOWN"]

NewSlur(side) ==
    [end_event_id |-> 0, side |-> side, start_note |-> 0, end_note |-> 0,
     is_incomplete |-> "unset", incomplete_type |-> "unset"]

\* parse_slur, type="start"
ParseSlurStart(r, el, slur_number, nid) ==
    LET side == IF el.placement \in DOMAIN SLUR_SIDES_FOR_IMPORT
                THEN SLUR_SIDES_FOR_IMPORT[el.placement] ELSE "None"
        sl == Len(r.slurs) + 1
    IN  [r EXCEPT !.slurs = Append(@, NewSlur(side)),
                  !.open_slurs = Put(@, slur_number,
                      [slur |-> sl, start_default_x |-> el.default_x,
                       has_end_attrs |-> FALSE, first_note |-> nid, last_note |-> 0])]

\* a stop without its start taken for a data error
ParseSlurStopRaises(r, el, slur_number, nid) == Raise(r, "NotationDataError")

\* parse_slur, type="stop" and no slur of that number open: the KeyError is passed over
ParseSlurStopUnmatched(r, el, slur_number, nid) == r

\* parse_slur, type="stop"
ParseSlurStop(r, el, slur_number, nid) ==
    IF slur_number \in DOMAIN r.open_slurs
    THEN LET done == [r.open_slurs[slur_number] EXCEPT !.has_end_attrs = TRUE,
                                                       !.last_note = nid]
         IN  [r EXCEPT !.complete_slurs = Append(@, done),
                       !.open_slurs = Drop(@, slur_number)]
    ELSE ParseSlurStopUnmatched(r, el, slur_number, nid)

\* MusicXMLReader.parse_slur
ParseSlur(r, el, nid) ==
    IF el.type = "start" THEN ParseSlurStart(r, el, SlurNumber(el), nid)
    ELSE IF el.type = "stop" THEN ParseSlurStop(r, el, SlurNumber(el), nid)
    ELSE r

\* get_open_tie_by_end_note's loop from index i: the index of the first open tie
\* on another note of equal pitch, 0 when there is none
RECURSIVE FindOpenTie(_, _, _)
FindOpenTie(r, end_note, i) ==
    IF i > Len(r.open_ties) THEN [status |-> "ok", idx |-> 0]
    ELSE IF r.open_ties[i] = end_note THEN FindOpenTie(r, end_note, i + 1)
    ELSE LET eq == PitchEq(r.notes[r.open_ties[i]].pitch, r.notes[end_note].pitch)
         IN  IF eq = "AttributeError" THEN [status |-> "AttributeError", idx |-> 0]
             ELSE IF eq = "True" THEN [status |-> "ok", idx |-> i]
             ELSE FindOpenTie(r, end_note, i + 1)

RemoveAt(s, i) == SubSeq(s, 1, i - 1) \o SubSeq(s, i + 1, Len(s))

\* MusicXMLReader.get_open_tie_by_end_note, with the caller's link of the two notes
TiedStop(r, end_note) ==
    LET f == FindOpenTie(r, end_note, 1)
    IN  IF f.status # "ok" THEN Raise(r, f.status)
        ELSE IF f.idx = 0 THEN r
        ELSE LET start_note == r.open_ties[f.idx]
             IN  [r EXCEPT !.open_ties = RemoveAt(@, f.idx),
                           !.notes[start_note].tie_end_note = r.notes[end_note].note_id,
                           !.notes[end_note].is_referenced = TRUE]

\* parse_notations, <tied>
ParseTied(r, el, nid) ==
    IF el.type = "start" THEN [r EXCEPT !.open_ties = Append(@, nid)]
    ELSE IF el.type = "stop"
    THEN IF r.notes[nid].pitch = NonePitch THEN Raise(r, "NotationDataError")
         ELSE TiedStop(r, nid)
    ELSE r

\* MusicXMLReader.parse_tuplet: the reader after it, and the closed number ("" for None)
ParseTuplet(r, el) ==
    IF el.type = "start"
    THEN [r |-> [r EXCEPT !.open_tuplets = Put(@, el.number, <<>>)], closed |-> ""]
    ELSE IF el.type = "stop" THEN [r |-> r, closed |-> el.number]
    ELSE [r |-> r, closed |-> ""]

\* parse_notations' loop from child i; N holds the reader and the two result lists
RECURSIVE ParseNotationsFrom(_, _, _, _)
ParseNotationsFrom(N, els, i, nid) ==
    IF i > Len(els) \/ N.r.status # "ok" THEN N
    ELSE LET el == els[i]
             N1 == CASE el.tag = "articulations" ->
                        [N EXCEPT !.event_markings =
                            ParseArticulations(el.children, 1, N.event_markings)]
                     [] el.tag = "ornaments" ->
                        LET o == ParseOrnaments(el, N.event_markings)
                        IN  [N EXCEPT !.r.status = o.status,
                                      !.event_markings = o.event_markings]
                     [] el.tag = "slur" -> [N EXCEPT !.r = ParseSlur(N.r, el, nid)]
                     [] el.tag = "tied" -> [N EXCEPT !.r = ParseTied(N.r, el, nid)]
                     [] el.tag = "tuplet" ->
                        LET t == ParseTuplet(N.r, el)
                        IN  [N EXCEPT !.r = t.r,
                                      !.closed_tuplet_numbers =
                                          IF t.closed # "" THEN Append(@, t.closed) ELSE @]
                     [] OTHER -> N
         IN  ParseNotationsFrom(N1, els, i + 1, nid)

\* MusicXMLReader.parse_notations
ParseNotations(r, el, nid) ==
    ParseNotationsFrom([r |-> r, closed_tuplet_numbers |-> <<>>, event_markings |-> <<>>],
                       el.children, 1, nid)

\* one pass of parse_note's loop over the children of <note>
NoteChild(L, el) ==
    CASE el.tag = "accidental" ->
            IF el.text \in ACCIDENTAL_TYPES_FOR_IMPORT
            THEN [L EXCEPT !.r.notes[L.note].rendered_acc = el.text]
            ELSE Fail(L, "NotationDataError")
      [] el.tag = "beam" ->
            LET b == ParseBeam(el)
            IN  IF b.status # "ok" THEN Fail(L, b.status)
                ELSE [L EXCEPT !.beams = Append(@, b.beam)]
      [] el.tag = "chord" -> [L EXCEPT !.is_chord = TRUE]
      [] el.tag = "dot" -> [L EXCEPT !.num_dots = @ + 1]
      [] el.tag = "duration" ->
            LET d == ParseDuration(el)
            IN  IF d.status # "ok" THEN Fail(L, d.status)
                ELSE [L EXCEPT !.duration = [some |-> TRUE, val |-> d.val]]
      [] el.tag = "grace" -> [L EXCEPT !.is_grace = TRUE]
      [] el.tag = "notations" ->
            LET n == ParseNotations(L.r, el, L.note)
            IN  [L EXCEPT !.r = n.r,
                          !.closed_tuplet_numbers = @ \o n.closed_tuplet_numbers,
                          !.event_markings = n.event_markings]
      [] el.tag = "pitch" ->
            LET p == ParsePitch(el)
            IN  IF p.status # "ok" THEN Fail(L, p.status)
                ELSE [L EXCEPT !.r.notes[L.note].pitch = p.pitch]
      [] el.tag = "rest" -> [L EXCEPT !.is_rest = TRUE]
      [] el.tag = "time-modification" ->
            LET t == ParseTimeModification(el, L.note_type)
            IN  IF t.status # "ok" THEN Fail(L, t.status)
                ELSE [L EXCEPT !.time_mod = t.ratio]
      [] el.tag = "type" ->
            LET t == ParseType(el)
            IN  IF t.status # "ok" THEN Fail(L, t.status)
                ELSE [L EXCEPT !.note_type = t.frac]
      [] el.tag = "voice" -> [L EXCEPT !.sequence_id = el.text]
      [] OTHER -> L

RECURSIVE NoteChildren(_, _, _)
NoteChildren(L, els, i) ==
    IF i > Len(els) \/ L.r.status # "ok" THEN L
    ELSE NoteChildren(NoteChild(L, els[i]), els, i + 1)

\* ------------------------------------------------- parse_note after the loop
\* BarPart.get_sequence: the Sequence of that id in the BarPart, 0 for None
RECURSIVE GetSequenceFrom(_, _, _)
GetSequenceFrom(r, sequence_id, i) ==
    IF i > Len(r.bar_part.sequences) THEN 0
    ELSE IF r.seqs[r.bar_part.sequences[i]].sequence_id = sequence_id
         THEN r.bar_part.sequences[i]
    ELSE GetSequenceFrom(r, sequence_id, i + 1)

GetSequence(r, sequence_id) == GetSequenceFrom(r, sequence_id, 1)

\* BarPart.get_or_create_sequence
GetOrCreateSequence(r, sequence_id) ==
    IF GetSequence(r, sequence_id) # 0
    THEN [r |-> r, sequence |-> GetSequence(r, sequence_id)]
    ELSE [r |-> [r EXCEPT !.seqs = Append(@, [sequence_id |-> sequence_id,
                                              items |-> <<>>, beams |-> <<>>]),
                          !.bar_part.sequences = Append(@, Len(r.seqs) + 1)],
          sequence |-> Len(r.seqs) + 1]

\* Sequence.get_last_event: the last item that is an Event, 0 for None
RECURSIVE LastEventFrom(_, _)
LastEventFrom(items, i) ==
    IF i = 0 THEN 0
    ELSE IF items[i].k = "Event" THEN items[i].id
    ELSE LastEventFrom(items, i - 1)

GetLastEvent(r, sequence) == LastEventFrom(r.seqs[sequence].items, Len(r.seqs[sequence].items))

NewEvent(sequence, event_id, duration) ==
    [event_id |-> event_id, duration |-> duration, event_items |-> <<>>,
     slurs |-> <<>>, markings |-> <<>>, is_referenced |-> FALSE,
     parent |-> Ref("Sequence", sequence)]

\* parse_note, lines 527-535: the note value from <duration> when <type> is absent
NoteTypeFallback(L, part_id) ==
    IF L.note_type # NoneFraction THEN L
    ELSE IF \/ ~L.duration.some
            \/ part_id \notin DOMAIN L.r.part_divisions
            \/ L.r.part_divisions[part_id] * DIVISION_DURATION_WHOLE_NOTE = 0
         THEN Fail(L, "NotationDataError")
    ELSE [L EXCEPT !.note_type = Fraction(L.duration.val,
                        L.r.part_divisions[part_id] * DIVISION_DURATION_WHOLE_NOTE),
                   !.num_dots = 0]

\* a chord test that compares the note values and not the dots
ChordDurationFracOnly(event_duration, rhythmic_duration) ==
    event_duration.frac = rhythmic_duration.frac

\* the chord test of parse_note, line 542: may the note join the event
ChordDurationOk(event_duration, rhythmic_duration) ==
    RhythmicDurationEq(event_duration, rhythmic_duration)

\* a new Event, appended to the sequence's items
AppendNewEvent(L, rhythmic_duration) ==
    [L EXCEPT !.r.events = Append(@, NewEvent(L.sequence, L.r.next_event_id, rhythmic_duration)),
              !.r.next_event_id = @ + 1,
              !.r.seqs[L.sequence].items = Append(@, Ref("Event", L.r.next_event_id)),
              !.event = L.r.next_event_id]

\* a new Event for a grace note, appended to the current GraceNoteGroup (made and
\* appended to the sequence when there is none)
AppendGraceEvent(L, rhythmic_duration) ==
    LET e == L.r.next_event_id
        L1 == [L EXCEPT !.r.events = Append(@, NewEvent(L.sequence, e, rhythmic_duration)),
                        !.r.next_event_id = @ + 1,
                        !.event = e]
        g == Len(L.r.graces) + 1
    IN  IF L.r.current_grace_note_group = 0
        THEN [L1 EXCEPT !.r.graces = Append(@, [events |-> <<e>>,
                                                parent |-> Ref("Sequence", L.sequence)]),
                        !.r.current_grace_note_group = g,
                        !.r.seqs[L.sequence].items = Append(@, Ref("GraceNoteGroup", g))]
        ELSE [L1 EXCEPT !.r.graces[L.r.current_grace_note_group].events = Append(@, e)]

\* parse_note, lines 537-561: the sequence and the event of the note
NoteEvent(L) ==
    LET rhythmic_duration == RhythmicDuration(L.note_type, L.num_dots)
        s == GetOrCreateSequence(L.r, L.sequence_id)
        L1 == [L EXCEPT !.r = s.r, !.sequence = s.sequence,
                        !.r.notes[L.note].rhythmic_duration = rhythmic_duration,
                        !.r.notes[L.note].sequence = s.sequence]
        event == GetLastEvent(L1.r, L1.sequence)
    IN  IF L.is_chord
        THEN IF event # 0
             THEN IF ~ChordDurationOk(L1.r.events[event].duration, rhythmic_duration)
                  THEN Fail(L1, "NotationDataError")
                  ELSE [L1 EXCEPT !.event = event]
             ELSE AppendNewEvent(L1, rhythmic_duration)
        ELSE IF L.is_grace THEN AppendGraceEvent(L1, rhythmic_duration)
        ELSE AppendNewEvent([L1 EXCEPT !.r.current_grace_note_group = 0], rhythmic_duration)

\* the event item of a pitched note taken without counting up next_note_id
NoteEventItemSameId(L) ==
    IF L.is_rest
    THEN [L EXCEPT !.event_item = Ref("Rest", L.note),
                   !.r.events[L.event].event_items = Append(@, Ref("Rest", L.note))]
    ELSE IF L.r.notes[L.note].pitch = NonePitch THEN Fail(L, "NotationDataError")
    ELSE [L EXCEPT !.event_item = Ref("Note", L.note),
                   !.r.events[L.event].event_items = Append(@, Ref("Note", L.note))]

\* parse_note, lines 563-571: the Rest or the Note, appended to the event
NoteEventItem(L) ==
    IF L.is_rest
    THEN [L EXCEPT !.event_item = Ref("Rest", L.note),
                   !.r.events[L.event].event_items = Append(@, Ref("Rest", L.note))]
    ELSE IF L.r.notes[L.note].pitch = NonePitch THEN Fail(L, "NotationDataError")
    ELSE [L EXCEPT !.event_item = Ref("Note", L.note),
                   !.r.next_note_id = @ + 1,
                   !.r.events[L.event].event_items = Append(@, Ref("Note", L.note))]

\* parse_note, lines 575-577: each closed number is popped from the open tuplets
RECURSIVE CloseTuplets(_, _)
CloseTuplets(L, i) ==
    IF i > Len(L.closed_tuplet_numbers) \/ L.r.status # "ok" THEN L
    ELSE LET number == L.closed_tuplet_numbers[i]
         IN  IF number \notin DOMAIN L.r.open_tuplets THEN Fail(L, "KeyError")
             ELSE CloseTuplets(
                    [L EXCEPT !.r.current_tuplets =
                                  Append(@, [sequence |-> L.sequence,
                                             event_list |-> L.r.open_tuplets[number],
                                             ratio |-> L.time_mod]),
                              !.r.open_tuplets = Drop(@, number)],
                    i + 1)

\* parse_note, lines 572-577
NoteTuplets(L) ==
    IF DOMAIN L.r.open_tuplets = {} THEN L
    ELSE CloseTuplets(
            [L EXCEPT !.r.open_tuplets =
                [n \in DOMAIN L.r.open_tuplets |-> Append(L.r.open_tuplets[n], L.event)]],
            1)

\* parse_note, lines 578-591
NoteRest(L) ==
    LET L1 == IF L.beams # <<>>
              THEN [L EXCEPT !.r.current_beams =
                        Append(@, [sequence |-> L.sequence, event |-> L.event,
                                   beam_data |-> L.beams])]
              ELSE L
        L2 == IF L1.r.current_octave_shift.open
              THEN [L1 EXCEPT !.r.current_octave_shift.note_list = Append(@, L.event_item)]
              ELSE L1
        L3 == [L2 EXCEPT !.r.events[L.event].markings = @ \o L.event_markings]
    IN  [L3 EXCEPT !.result = IF L.duration.some /\ ~L.is_chord THEN L.duration.val ELSE 0]

\* MusicXMLReader.parse_note: the locals when it returns or raises; each part of
\* it runs unless an exception has ended the one before
ParseNote(r, note_el, part_id) ==
    LET L0 == NoteLocals([r EXCEPT !.notes = Append(@, NewNote(r.next_note_id))],
                         Len(r.notes) + 1)
        Fallback(L) == IF L.r.status # "ok" THEN L ELSE NoteTypeFallback(L, part_id)
        Event(L) == IF L.r.status # "ok" THEN L ELSE NoteEvent(L)
        EventItem(L) == IF L.r.status # "ok" THEN L ELSE NoteEventItem(L)
        Tuplets(L) == IF L.r.status # "ok" THEN L ELSE NoteTuplets(L)
        Rest(L) == IF L.r.status # "ok" THEN L ELSE NoteRest(L)
    IN  Rest(Tuplets(EventItem(Event(Fallback(NoteChildren(L0, note_el.children, 1))))))

\* parse_measure_part, line 299: position += parse_note(...)
NoteAdvance(L) == IF L.r.status # "ok" THEN L.r ELSE [L.r EXCEPT !.position = @ + L.result]

\* parse_measure_part, lines 291 and 297: position -=/+= parse_forward_backup(el)
Advance(b, sign) ==
    IF b.r.status # "ok" THEN b.r ELSE [b.r EXCEPT !.position = @ + (sign * b.val)]

\* -------------------------------------------------------- key signatures
KEYSIG_STEPS == <<"C", "G", "D", "A", "E", "B", "F", "C", "F", "B", "E", "A", "D", "G", "C">>
KEYSIG_ALTERS == <<0, 0, 0, 0, 0, 0, 1, 1, 0, -1, -1, -1, -1, -1, -1>>
\* the position in KEYSIG_PITCHES of a fifths value: 0..7, then -1..-7
KeysigIndex(fifths) == IF fifths >= 0 THEN fifths + 1 ELSE 8 - fifths

NUM_PITCHES_IN_OCTAVE == 12

\* Pitch.step_integer
StepInteger(step) ==
    CASE step = "C" -> 0 [] step = "D" -> 2 [] step = "E" -> 4 [] step = "F" -> 5
      [] step = "G" -> 7 [] step = "A" -> 9 [] step = "B" -> 11

STEP_INTEGER_WHITE_KEYS ==
    [i \in {0, 2, 4, 5, 7, 9, 11} |->
        CASE i = 0 -> "C" [] i = 2 -> "D" [] i = 4 -> "E" [] i = 5 -> "F"
          [] i = 7 -> "G" [] i = 9 -> "A" [] i = 11 -> "B"]

\* a midi_number that leaves the alteration out
MidiNumberOfStep(p) == (NUM_PITCHES_IN_OCTAVE * (p.octave + 1)) + StepInteger(p.step)

\* Pitch.midi_number
MidiNumber(p) == (NUM_PITCHES_IN_OCTAVE * (p.octave + 1)) + StepInteger(p.step) + p.alter

\* a from_midi_number that spells every black key as a sharp
FromMidiNumberSharp(midi_number, prefer_flat) ==
    IF (midi_number % NUM_PITCHES_IN_OCTAVE) \in DOMAIN STEP_INTEGER_WHITE_KEYS
    THEN Pitch(STEP_INTEGER_WHITE_KEYS[midi_number % NUM_PITCHES_IN_OCTAVE],
               (midi_number \div NUM_PITCHES_IN_OCTAVE) - 1, 0)
    ELSE Pitch(STEP_INTEGER_WHITE_KEYS[((midi_number % NUM_PITCHES_IN_OCTAVE) - 1
                                           + NUM_PITCHES_IN_OCTAVE) % NUM_PITCHES_IN_OCTAVE],
               (midi_number \div NUM_PITCHES_IN_OCTAVE) - 1, 1)

\* Pitch.from_midi_number
FromMidiNumber(midi_number, prefer_flat) ==
    LET octave == (midi_number \div NUM_PITCHES_IN_OCTAVE) - 1
        step_integer == midi_number % NUM_PITCHES_IN_OCTAVE
    IN  IF step_integer \in DOMAIN STEP_INTEGER_WHITE_KEYS
        THEN Pitch(STEP_INTEGER_WHITE_KEYS[step_integer], octave, 0)
        ELSE IF prefer_flat
        THEN Pitch(STEP_INTEGER_WHITE_KEYS[(step_integer + 1) % NUM_PITCHES_IN_OCTAVE],
                   octave, -1)
        ELSE Pitch(STEP_INTEGER_WHITE_KEYS[(step_integer - 1 + NUM_PITCHES_IN_OCTAVE)
                                              % NUM_PITCHES_IN_OCTAVE], octave, 1)

\* Pitch.transpose_chromatic
PitchTransposeChromatic(p, semitones) ==
    IF semitones = 0 THEN p ELSE FromMidiNumber(MidiNumber(p) + semitones, TRUE)

\* KeySignature.pitch: the tonic, in the octave 4
KeySignaturePitch(fifths) ==
    Pitch(KEYSIG_STEPS[KeysigIndex(fifths)], 4, KEYSIG_ALTERS[KeysigIndex(fifths)])

\* KeySignature.from_pitch: the fifths of the key on that pitch
KeySignatureFromPitch(p) ==
    LET hits == {f \in -7..7 : /\ KEYSIG_STEPS[KeysigIndex(f)] = p.step
                               /\ KEYSIG_ALTERS[KeysigIndex(f)] = p.alter}
    IN  IF hits = {} THEN [status |-> "NotImplementedError", fifths |-> 0]
        ELSE [status |-> "ok", fifths |-> CHOOSE f \in hits : TRUE]

\* KeySignature.transpose_chromatic, as to_concert calls it with part.transpose
KeySignatureToConcert(fifths, transpose) ==
    IF transpose = 0 THEN [status |-> "ok", fifths |-> fifths]
    ELSE IF fifths \notin -7..7 THEN [status |-> "KeyError", fifths |-> 0]
    ELSE KeySignatureFromPitch(PitchTransposeChromatic(KeySignaturePitch(fifths), transpose))

\* ------------------------------------------------ the children of <part>
\* the fifths of parse_key: DEFAULT_KEYSIG when <fifths> is missing or does not parse
ParseFifths(el) ==
    IF el.fifths.kind = "missing" THEN [status |-> "ok", val |-> DEFAULT_KEYSIG]
    ELSE LET n == PyInt(el.fifths)
         IN  IF n.status = "ValueError" THEN [status |-> "ok", val |-> DEFAULT_KEYSIG]
             ELSE n

\* MusicXMLReader.parse_key
ParseKey(el, part) ==
    LET f == ParseFifths(el)
    IN  IF f.status # "ok" THEN [status |-> f.status, fifths |-> 0]
        ELSE KeySignatureToConcert(f.val, part.transpose)

\* a parse_time that takes a <time> for 4/4 whenever beats or beat-type is no
\* integer, whatever its symbol
ParseTimeLenient(el) ==
    IF el.beats.kind = "int" /\ el.beat_type.kind = "int"
    THEN [status |-> "ok", timesig |-> <<el.beats.val, el.beat_type.val>>]
    ELSE [status |-> "ok", timesig |-> <<4, 4>>]

\* MusicXMLReader.parse_time: the list [numerator, denominator]
ParseTime(el) ==
    IF el.beats.kind = "int" /\ el.beat_type.kind = "int"
    THEN [status |-> "ok", timesig |-> <<el.beats.val, el.beat_type.val>>]
    ELSE IF el.symbol = "common" THEN [status |-> "ok", timesig |-> <<4, 4>>]
    ELSE [status |-> "NotationDataError", timesig |-> <<>>]

\* MusicXMLReader.parse_divisions
ParseDivisions(el) ==
    LET n == PyInt(el.digits)
    IN  IF n.status = "ValueError" THEN [status |-> "NotationDataError", val |-> 0] ELSE n

\* MusicXMLReader.parse_clef
ParseClef(r, part, el) ==
    LET line == PyInt(el.line)
    IN  IF line.status = "ValueError" THEN Raise(r, "NotationDataError")
        ELSE IF line.status # "ok" THEN Raise(r, line.status)
        ELSE IF part.part_id \notin DOMAIN r.part_divisions THEN Raise(r, "KeyError")
        ELSE IF r.part_divisions[part.part_id] * DIVISION_DURATION_WHOLE_NOTE = 0
           THEN Raise(r, "ZeroDivisionError")
        ELSE [r EXCEPT !.bar_part.clefs = Append(@,
                [sign |-> el.sign, staff_position |-> (2 * line.val) - 6,
                 position |-> Fraction(r.position,
                     r.part_divisions[part.part_id] * DIVISION_DURATION_WHOLE_NOTE)])]

\* one pass of parse_measure_attributes' loop; bar is the index of the Bar
AttributesChild(r, el, bar, part) ==
    CASE el.tag = "clef" -> ParseClef(r, part, el)
      [] el.tag = "divisions" ->
            LET d == ParseDivisions(el)
            IN  IF d.status # "ok" THEN Raise(r, d.status)
                ELSE [r EXCEPT !.part_divisions = Put(@, part.part_id, d.val)]
      [] el.tag = "key" ->
            LET k == ParseKey(el, part)
            IN  IF k.status # "ok" THEN Raise(r, k.status)
                ELSE [r EXCEPT !.bars[bar].keysig = [some |-> TRUE, fifths |-> k.fifths]]
      [] el.tag = "time" ->
            LET t == ParseTime(el)
            IN  IF t.status # "ok" THEN Raise(r, t.status)
                ELSE [r EXCEPT !.bars[bar].timesig = t.timesig]
      [] OTHER -> r

\* MusicXMLReader.parse_measure_attributes
RECURSIVE ParseMeasureAttributes(_, _, _, _, _)
ParseMeasureAttributes(r, els, i, bar, part) ==
    IF i > Len(els) \/ r.status # "ok" THEN r
    ELSE ParseMeasureAttributes(AttributesChild(r, els[i], bar, part), els, i + 1, bar, part)

\* MusicXMLReader.parse_forward_backup: the reader and the duration returned
ParseForwardBackup(r, el) ==
    LET r1 == [r EXCEPT !.current_grace_note_group = 0]
        d == ParseDuration([digits |-> el.duration])
    IN  IF el.duration.kind = "missing" THEN [r |-> r1, val |-> 0]
        ELSE [r |-> Raise(r1, d.status), val |-> d.val]

OCTAVE_SHIFT_SIZES == {"8", "15", "16", "22"}

\* MusicXMLReader.parse_octave_shift
ParseOctaveShift(r, el) ==
    IF el.type \in {"up", "down"}
    THEN LET size == IF el.size = "missing" THEN "8" ELSE el.size
         IN  IF size \notin OCTAVE_SHIFT_SIZES THEN Raise(r, "NotationDataError")
             ELSE [r EXCEPT !.current_octave_shift =
                       [open |-> TRUE, shift_type |-> <<size, el.type>>, note_list |-> <<>>]]
    ELSE IF el.type = "stop"
    THEN IF ~r.current_octave_shift.open THEN r
         ELSE IF r.current_octave_shift.note_list = <<>> THEN r
         ELSE [r EXCEPT !.complete_octave_shifts = Append(@, r.current_octave_shift),
                        !.current_octave_shift = NoShift]
    ELSE r

\* MusicXMLReader.parse_direction, for the <octave-shift> elements it reaches
RECURSIVE ParseDirection(_, _, _)
ParseDirection(r, els, i) ==
    IF i > Len(els) \/ r.status # "ok" THEN r
    ELSE ParseDirection(ParseOctaveShift(r, els[i]), els, i + 1)

\* an Ending; none stands for the None of a Bar without one
NoEnding == [some |-> FALSE, ending_type |-> "", numbers |-> <<>>]
Ending(ending_type, numbers) ==
    [some |-> TRUE, ending_type |-> ending_type, numbers |-> numbers]

ENDING_TYPES_FOR_IMPORT ==
    [start |-> "TYPE_START", stop |-> "TYPE_STOP", discontinue |-> "TYPE_DISCONTINUE"]

\* the numbers of an <ending>: the tokens of its number attribute that are
\* digit strings, as integers
EndingNumbers(tokens) ==
    LET digits == SelectSeq(tokens, LAMBDA t : t.kind = "int" /\ t.val >= 0)
    IN  [i \in 1..Len(digits) |-> digits[i].val]

\* MusicXMLReader.parse_ending
ParseEnding(r, el, bar) ==
    IF el.type = "start"
    THEN IF el.number.kind # "missing" /\ EndingNumbers(el.number.tokens) # <<>>
         THEN [r EXCEPT !.bars[bar].start_ending =
                  Ending(ENDING_TYPES_FOR_IMPORT[el.type], EndingNumbers(el.number.tokens))]
         ELSE r
    ELSE IF el.type \in {"stop", "discontinue"}
         THEN [r EXCEPT !.bars[bar].stop_ending = Ending(ENDING_TYPES_FOR_IMPORT[el.type], <<>>)]
    ELSE r

\* the times attribute of a backward <repeat> as a number: 2 when the attribute
\* is missing (KeyError) or no integer (ValueError)
RepeatTimes(times) == IF times.kind = "int" THEN times.val ELSE 2

\* one pass of parse_barline's loop
BarlineChild(r, el, bar) ==
    IF el.tag = "ending" THEN ParseEnding(r, el, bar)
    ELSE IF el.tag = "repeat"
    THEN IF el.direction = "missing" THEN Raise(r, "NotationDataError")
         ELSE IF el.direction = "forward" THEN [r EXCEPT !.bars[bar].start_repeat = TRUE]
         ELSE IF el.direction = "backward"
              THEN [r EXCEPT !.bars[bar].end_repeat = RepeatTimes(el.times)]
         ELSE r
    ELSE r

\* MusicXMLReader.parse_barline
RECURSIVE ParseBarline(_, _, _, _)
ParseBarline(r, els, i, bar) ==
    IF i > Len(els) \/ r.status # "ok" THEN r
    ELSE ParseBarline(BarlineChild(r, els[i], bar), els, i + 1, bar)

\* one pass of parse_measure_part's loop over the children of <part>
ParseChild(r, el, bar, part) ==
    CASE el.tag = "attributes" -> ParseMeasureAttributes(r, el.children, 1, bar, part)
      [] el.tag = "backup" -> Advance(ParseForwardBackup(r, el), -1)
      [] el.tag = "barline" -> ParseBarline(r, el.children, 1, bar)
      [] el.tag = "direction" -> ParseDirection(r, el.children, 1)
      [] el.tag = "forward" -> Advance(ParseForwardBackup(r, el), 1)
      [] el.tag = "note" -> NoteAdvance(ParseNote(r, el, part.part_id))
      [] OTHER -> r

\* ------------------------------------------------------- score queries
\* Which item classes define iter_events (score.py: SequenceContent and its
\* subclasses Sequence and Tuplet; GraceNoteGroup and Ottava do not)
HasIterEvents(kind) == kind = "Tuplet"

\* SequenceContent.iter_events from item i: the ids of the events it yields, in
\* order; a final 0 stands for the AttributeError that ends the iteration at an
\* item without iter_events
RECURSIVE IterEvents(_, _, _)
IterEvents(r, items, i) ==
    IF i > Len(items) THEN <<>>
    ELSE IF items[i].k = "Event" THEN <<items[i].id>> \o IterEvents(r, items, i + 1)
    ELSE IF HasIterEvents(items[i].k)
    THEN LET inner == IterEvents(r, r.tuplets[items[i].id].items, 1)
         IN  IF inner # <<>> /\ inner[Len(inner)] = 0 THEN inner
             ELSE inner \o IterEvents(r, items, i + 1)
    ELSE <<0>>

Raises(evs) == evs # <<>> /\ evs[Len(evs)] = 0

\* the events of one BarPart's sequences from sequence i, as iterated
RECURSIVE BarPartEvents(_, _, _)
BarPartEvents(r, sequences, i) ==
    IF i > Len(sequences) THEN <<>>
    ELSE LET evs == IterEvents(r, r.seqs[sequences[i]].items, 1)
         IN  IF Raises(evs) THEN evs ELSE evs \o BarPartEvents(r, sequences, i + 1)

\* bar.bar_parts.values(): the BarParts in the order they were put in, which is
\* the order of the parts
RECURSIVE BarEvents(_, _, _)
BarEvents(r, bar, p) ==
    IF p > Len(r.score_parts) THEN <<>>
    ELSE IF r.score_parts[p].part_id \notin DOMAIN r.bars[bar].bar_parts
         THEN BarEvents(r, bar, p + 1)
    ELSE LET evs == BarPartEvents(r, r.bars[bar].bar_parts[r.score_parts[p].part_id].sequences, 1)
         IN  IF Raises(evs) THEN evs ELSE evs \o BarEvents(r, bar, p + 1)

RECURSIVE ScoreEvents(_, _)
ScoreEvents(r, bar) ==
    IF bar > Len(r.bars) THEN <<>>
    ELSE LET evs == BarEvents(r, bar, 1)
         IN  IF Raises(evs) THEN evs ELSE evs \o ScoreEvents(r, bar + 1)

InSeq(x, s) == \E i \in 1..Len(s) : s[i] = x

\* the first event of evs from index i that holds the item; 0 for None
RECURSIVE FirstEventWith(_, _, _, _)
FirstEventWith(r, evs, i, item) ==
    IF i > Len(evs) THEN [status |-> "ok", event |-> 0]
    ELSE IF evs[i] = 0 THEN [status |-> "AttributeError", event |-> 0]
    ELSE IF InSeq(item, r.events[evs[i]].event_items) THEN [status |-> "ok", event |-> evs[i]]
    ELSE FirstEventWith(r, evs, i + 1, item)

\* Score.get_event_containing_note
GetEventContainingNote(r, item) == FirstEventWith(r, ScoreEvents(r, 1), 1, item)

\* SequenceContent.find_item_idx_by_event from item i (1-based; 0 for None)
RECURSIVE FindItemIdxByEvent(_, _, _, _)
FindItemIdxByEvent(r, items, i, target) ==
    IF i > Len(items) THEN [status |-> "ok", idx |-> 0]
    ELSE IF items[i].k = "Event"
    THEN IF items[i].id = target THEN [status |-> "ok", idx |-> i]
         ELSE FindItemIdxByEvent(r, items, i + 1, target)
    ELSE IF HasIterEvents(items[i].k)
    THEN LET inner == IterEvents(r, r.tuplets[items[i].id].items, 1)
             hit == \E j \in 1..Len(inner) :
                        inner[j] = target /\ \A h \in 1..j : inner[h] # 0
         IN  IF hit THEN [status |-> "ok", idx |-> i]
             ELSE IF Raises(inner) THEN [status |-> "AttributeError", idx |-> 0]
             ELSE FindItemIdxByEvent(r, items, i + 1, target)
    ELSE [status |-> "AttributeError", idx |-> 0]

\* item.parent = new_parent for the items from i on
RECURSIVE SetParents(_, _, _, _)
SetParents(r, items, i, parent) ==
    IF i > Len(items) THEN r
    ELSE LET it == items[i]
             r1 == CASE it.k = "Event" -> [r EXCEPT !.events[it.id].parent = parent]
                     [] it.k = "Tuplet" -> [r EXCEPT !.tuplets[it.id].parent = parent]
                     [] it.k = "GraceNoteGroup" -> [r EXCEPT !.graces[it.id].parent = parent]
                     [] OTHER -> r
         IN  SetParents(r1, items, i + 1, parent)

\* the slice items[start_idx:end_idx+1] that fold_items folds (1-based bounds)
FoldedSlice(items, start_idx, end_idx) == SubSeq(items, start_idx, end_idx)

\* SequenceContent.fold_items with klass Tuplet, on the Sequence `sequence`
FoldItems(r, sequence, item_list, ratio) ==
    LET items == r.seqs[sequence].items
        s == FindItemIdxByEvent(r, items, 1, item_list[1])
        e == FindItemIdxByEvent(r, items, 1, item_list[Len(item_list)])
    IN  IF s.status # "ok" THEN Raise(r, s.status)
        ELSE IF e.status # "ok" THEN Raise(r, e.status)
        ELSE IF s.idx = 0 \/ e.idx = 0 THEN Raise(r, "NotImplementedError")
        ELSE LET folded_items == FoldedSlice(items, s.idx, e.idx)
                 rest == SubSeq(items, 1, s.idx - 1)
                            \o SubSeq(items, s.idx + Len(folded_items), Len(items))
                 t == Len(r.tuplets) + 1
                 r1 == [r EXCEPT !.tuplets = Append(@, [items |-> folded_items,
                                                        ratio |-> ratio,
                                                        parent |-> Ref("Sequence", sequence)])]
                 r2 == SetParents(r1, folded_items, 1, Ref("Tuplet", t))
             IN  [r2 EXCEPT !.seqs[sequence].items =
                     SubSeq(rest, 1, s.idx - 1) \o <<Ref("Tuplet", t)>>
                        \o SubSeq(rest, s.idx, Len(rest))]

\* parse_measure_part, lines 310-313
RECURSIVE SetTuplets(_, _)
SetTuplets(r, i) ==
    IF r.status # "ok" THEN r
    ELSE IF i > Len(r.current_tuplets) THEN [r EXCEPT !.current_tuplets = <<>>]
    ELSE SetTuplets(FoldItems(r, r.current_tuplets[i].sequence,
                              r.current_tuplets[i].event_list,
                              r.current_tuplets[i].ratio), i + 1)

\* ------------------------------------------------------------------ slurs
\* the class attributes of score.Slur
SlurClassAttributes == {"SIDE_UP", "SIDE_DOWN"}
\* the methods of score.Score
ScoreMethods == {"get_event_measure_rhythmic_position", "get_event_containing_note"}

\* the heuristic without the test that the other slur is a distinct one
HeuristicSlurAmongAll(r, slur, start_event, end_event, i) ==
    [status |-> "ok",
     val |-> \E j \in 1..Len(r.complete_slurs) :
                /\ GetEventContainingNote(r, Ref("Note", r.complete_slurs[j].first_note)).event
                      = start_event
                /\ GetEventContainingNote(r, Ref("Note", r.complete_slurs[j].last_note)).event
                      = end_event]

\* MusicXMLReader.heuristic_slur_targets_notes, from active slur i
RECURSIVE HeuristicSlurTargetsNotes(_, _, _, _, _)
HeuristicSlurTargetsNotes(r, slur, start_event, end_event, i) ==
    IF i > Len(r.complete_slurs) THEN [status |-> "ok", val |-> FALSE]
    ELSE LET sd == r.complete_slurs[i]
             os == GetEventContainingNote(r, Ref("Note", sd.first_note))
             oe == GetEventContainingNote(r, Ref("Note", sd.last_note))
         IN  IF sd.slur = slur
             THEN HeuristicSlurTargetsNotes(r, slur, start_event, end_event, i + 1)
             ELSE IF os.status # "ok" THEN [status |-> os.status, val |-> FALSE]
             ELSE IF oe.status # "ok" THEN [status |-> oe.status, val |-> FALSE]
             ELSE IF os.event = start_event /\ oe.event = end_event
                  THEN [status |-> "ok", val |-> TRUE]
             ELSE HeuristicSlurTargetsNotes(r, slur, start_event, end_event, i + 1)

\* MusicXMLReader.add_slur from line 778 on, s and e being what the two calls of
\* get_event_containing_note gave; an event of 0 is None
AddSlurBetween(r, sd, s, e) ==
    LET h == HeuristicSlurTargetsNotes(r, sd.slur, s.event, e.event, 1)
    IN  IF s.status # "ok" THEN Raise(r, s.status)
        ELSE IF e.status # "ok" THEN Raise(r, e.status)
        ELSE IF s.event = e.event
        THEN LET r1 == [r EXCEPT !.slurs[sd.slur].is_incomplete = "True"]
                 incomplete_type == IF sd.start_default_x = "negative"
                                    THEN "INCOMPLETE_TYPE_INCOMING"
                                    ELSE "INCOMPLETE_TYPE_OUTGOING"
             IN  IF incomplete_type \notin SlurClassAttributes
                 THEN Raise(r1, "AttributeError")
                 ELSE IF s.event = 0 THEN Raise(r1, "AttributeError")
                 ELSE [r1 EXCEPT !.slurs[sd.slur].incomplete_type = incomplete_type,
                                 !.events[s.event].slurs = Append(@, sd.slur)]
        ELSE LET r1 == [r EXCEPT !.slurs[sd.slur].is_incomplete = "False"]
             IN  IF e.event = 0 THEN Raise(r1, "AttributeError")
                 ELSE LET r2 == [r1 EXCEPT !.slurs[sd.slur].end_event_id = e.event,
                                           !.events[e.event].is_referenced = TRUE]
                          r3 == IF h.val
                                THEN [r2 EXCEPT
                                        !.slurs[sd.slur].start_note = r.notes[sd.first_note].note_id,
                                        !.slurs[sd.slur].end_note = r.notes[sd.last_note].note_id,
                                        !.notes[sd.first_note].is_referenced = TRUE,
                                        !.notes[sd.last_note].is_referenced = TRUE]
                                ELSE r2
                      IN  IF h.status # "ok" THEN Raise(r2, h.status)
                          ELSE IF s.event = 0 THEN Raise(r3, "AttributeError")
                          ELSE [r3 EXCEPT !.events[s.event].slurs = Append(@, sd.slur)]

\* MusicXMLReader.add_slur
AddSlur(r, sd) ==
    AddSlurBetween(r, sd, GetEventContainingNote(r, Ref("Note", sd.first_note)),
                   GetEventContainingNote(r, Ref("Note", sd.last_note)))

\* parse_measure_part, lines 305-308
RECURSIVE AddSlurs(_, _)
AddSlurs(r, i) ==
    IF r.status # "ok" THEN r
    ELSE IF i > Len(r.complete_slurs) THEN [r EXCEPT !.complete_slurs = <<>>]
    ELSE AddSlurs(AddSlur(r, r.complete_slurs[i]), i + 1)

\* ------------------------------------------------------------------ beams
\* list.sort() on (number, text) tuples: by number, then by text
BeamTextRank(text) ==
    CASE text = "backward hook" -> 1 [] text = "begin" -> 2 [] text = "continue" -> 3
      [] text = "end" -> 4 [] text = "forward hook" -> 5 [] OTHER -> 6

BeamLess(a, b) == a[1] < b[1] \/ (a[1] = b[1] /\ BeamTextRank(a[2]) < BeamTextRank(b[2]))

RECURSIVE InsertSorted(_, _)
InsertSorted(x, sorted) ==
    IF sorted = <<>> THEN <<x>>
    ELSE IF BeamLess(x, sorted[1]) THEN <<x>> \o sorted
    ELSE <<sorted[1]>> \o InsertSorted(x, Tail(sorted))

RECURSIVE SortBeamData(_)
SortBeamData(beam_data) ==
    IF beam_data = <<>> THEN <<>>
    ELSE InsertSorted(beam_data[Len(beam_data)],
                      SortBeamData(SubSeq(beam_data, 1, Len(beam_data) - 1)))

\* a parent looked up under the beam's own number
BeamParentSameNumber(beam_number) == beam_number

\* the number under which process_beams looks for the parent of beam_number
BeamParentNumber(beam_number) == beam_number - 1

NoBeamLoop == [i |-> 0, j |-> 0, pending_ends |-> <<>>]

\* an open-beam table that is made anew for every measure-part
ProcessBeamsEnterAnew(r, part_id) ==
    [r |-> [r EXCEPT !.open_beams = Put(@, part_id, <<>>)],
     i |-> 1, j |-> 1, pending_ends |-> <<>>]

\* process_beams, lines 807-810
ProcessBeamsEnter(r, part_id) ==
    [r |-> IF part_id \in DOMAIN r.open_beams THEN r
           ELSE [r EXCEPT !.open_beams = Put(@, part_id, <<>>)],
     i |-> 1, j |-> 1, pending_ends |-> <<>>]

\* ended beams that are left in the open-beam table
PopNoPendingEnds(r, part_id, pending_ends, k) == r

\* process_beams, lines 855-858
RECURSIVE PopPendingEnds(_, _, _, _)
PopPendingEnds(r, part_id, pending_ends, k) ==
    IF k > Len(pending_ends) \/ r.status # "ok" THEN r
    ELSE IF pending_ends[k] \notin DOMAIN r.open_beams[part_id] THEN Raise(r, "KeyError")
    ELSE PopPendingEnds([r EXCEPT !.open_beams[part_id] = Drop(@, pending_ends[k])],
                        part_id, pending_ends, k + 1)

\* process_beams, one pass of the inner loop (lines 814-854): marker B.j of
\* entry B.i of current_beams, and after the entry's last marker lines 855-858
BeamMarker(B, part_id) ==
    LET entry == B.r.current_beams[B.i]
        beam_data == SortBeamData(entry.beam_data)
        beam_number == beam_data[B.j][1]
        beam_type == beam_data[B.j][2]
        r0 == [B.r EXCEPT !.events[entry.event].is_referenced = TRUE]
        open == r0.open_beams[part_id]
        beam == Len(r0.beams) + 1
        begun == [r0 EXCEPT !.beams = Append(@, [events |-> <<entry.event>>,
                                                 children |-> <<>>]),
                            !.open_beams[part_id] = Put(@, beam_number, beam)]
        parent == BeamParentNumber(beam_number)
        r1 == CASE beam_type = "begin" ->
                    IF beam_number = 1
                    THEN [begun EXCEPT !.seqs[entry.sequence].beams = Append(@, beam)]
                    ELSE IF parent \notin DOMAIN begun.open_beams[part_id]
                    THEN Raise(begun, "NotationDataError")
                    ELSE [begun EXCEPT !.beams[begun.open_beams[part_id][parent]].children =
                                Append(@, [k |-> "Beam", id |-> beam])]
                [] beam_type \in {"continue", "end"} ->
                    IF beam_number \notin DOMAIN open THEN r0
                    ELSE [r0 EXCEPT !.beams[open[beam_number]].events = Append(@, entry.event)]
                [] beam_type \in {"forward hook", "backward hook"} ->
                    IF parent \notin DOMAIN open THEN Raise(r0, "NotationDataError")
                    ELSE [r0 EXCEPT !.beams[open[parent]].children =
                                Append(@, [k |-> "BeamHook", id |-> entry.event,
                                           is_forward |-> beam_type = "forward hook"])]
                [] OTHER -> r0
        pending_ends == IF beam_type = "end" /\ beam_number \in DOMAIN open
                        THEN Append(B.pending_ends, beam_number) ELSE B.pending_ends
    IN  IF r1.status # "ok" THEN [B EXCEPT !.r = r1]
        ELSE IF B.j < Len(beam_data)
        THEN [r |-> r1, i |-> B.i, j |-> B.j + 1, pending_ends |-> pending_ends]
        ELSE [r |-> PopPendingEnds(r1, part_id, pending_ends, 1),
              i |-> B.i + 1, j |-> 1, pending_ends |-> <<>>]

\* a process_beams that leaves the collected markers in place
ProcessBeamsKeepingMarkers(r) == r

\* process_beams, line 859
ProcessBeamsExit(r) == [r EXCEPT !.current_beams = <<>>]

RECURSIVE BeamMarkers(_, _)
BeamMarkers(B, part_id) ==
    IF B.r.status # "ok" THEN B.r
    ELSE IF B.i > Len(B.r.current_beams) THEN ProcessBeamsExit(B.r)
    ELSE BeamMarkers(BeamMarker(B, part_id), part_id)

\* MusicXMLReader.process_beams
ProcessBeams(r, part_id) == BeamMarkers(ProcessBeamsEnter(r, part_id), part_id)

\* ---------------------------------------------------------- octave shifts
\* MusicXMLReader.add_octave_shift. start_event.insert_before(Ottava(...)) never
\* runs: on a start_event of None the attribute lookup raises AttributeError, and
\* otherwise the argument self.score.get_event_measure_location does, Score
\* defining no attribute of that name
AddOctaveShift(r, shift) ==
    LET s == GetEventContainingNote(r, shift.note_list[1])
        e == GetEventContainingNote(r, shift.note_list[Len(shift.note_list)])
    IN  IF s.status # "ok" THEN Raise(r, s.status)
        ELSE IF e.status # "ok" THEN Raise(r, e.status)
        ELSE IF s.event = 0 \/ "get_event_measure_location" \notin ScoreMethods
        THEN Raise(r, "AttributeError")
        ELSE r

\* parse_measure_part, lines 319-321
RECURSIVE AddOctaveShifts(_, _)
AddOctaveShifts(r, i) ==
    IF r.status # "ok" THEN r
    ELSE IF i > Len(r.complete_octave_shifts) THEN [r EXCEPT !.complete_octave_shifts = <<>>]
    ELSE AddOctaveShifts(AddOctaveShift(r, r.complete_octave_shifts[i]), i + 1)

\* ----------------------------------------------------------- the part-list
\* MusicXMLReader.parse_measure_transpose, on the <transpose> of the part's first measure
ParseMeasureTranspose(el) ==
    LET chromatic == IF el.chromatic.kind = "int" THEN el.chromatic.val ELSE 0
        octave_change == IF el.octave_change.kind = "int" THEN el.octave_change.val * 12 ELSE 0
    IN  chromatic + octave_change

NoTranspose == [chromatic |-> TMissing, octave_change |-> TMissing]

\* MusicXMLReader.parse_part_list with parse_part: part i of the list gets the id i
RECURSIVE ParsePartListFrom(_, _, _)
ParsePartListFrom(r, els, i) ==
    IF i > Len(els) \/ r.status # "ok" THEN r
    ELSE IF ~els[i].has_id THEN Raise(r, "NotationDataError")
    ELSE ParsePartListFrom(
            [r EXCEPT !.score_parts = Append(@, [part_id |-> i,
                            transpose |-> ParseMeasureTranspose(els[i].transpose)])],
            els, i + 1)

NewBar(idx) == [idx |-> idx, timesig |-> <<>>, keysig |-> [some |-> FALSE, fifths |-> 0],
                start_repeat |-> FALSE, end_repeat |-> 0, start_ending |-> NoEnding,
                stop_ending |-> NoEnding, bar_parts |-> <<>>]

\* parse_measure_part, line 300
PutBarPart(r, bar, part_id) == [r EXCEPT !.bars[bar].bar_parts = Put(@, part_id, r.bar_part)]

\* ------------------------------------------------------------- the reader
NoElement == [tag |-> "none"]
Did(op) == [op |-> op, el |-> NoElement, note |-> 0]

\* the part whose <part> element parse_measures is at: parts[part_idx]
Part == score_parts[part_idx]

\* the reader goes on at `next`, or the exception of r leaves read()
Step(r, next, did) ==
    /\ Install(r)
    /\ pc' = IF r.status = "ok" THEN next ELSE "failed"
    /\ last' = did
    /\ prev' = Tables

\* the document's <measure> elements, as far as the import has fixed them: the
\* number of <part> elements in each, or any number of both
AnyDocument == [free |-> TRUE, measures |-> <<>>]
MoreMeasures == IF imp.doc.free THEN TRUE ELSE Len(bars) < Len(imp.doc.measures)
NoMoreMeasures == IF imp.doc.free THEN TRUE ELSE Len(bars) = Len(imp.doc.measures)
MoreMeasureParts == IF imp.doc.free THEN TRUE ELSE part_idx < imp.doc.measures[Len(bars)]
NoMoreMeasureParts == IF imp.doc.free THEN TRUE ELSE part_idx = imp.doc.measures[Len(bars)]

\* the fields of a new MusicXMLReader (__init__, lines 201-216) with its empty Score
Constructed(at, import) ==
    /\ pc = at /\ status = "ok" /\ imp = import
    /\ score_parts = <<>> /\ bars = <<>>
    /\ bar_part = NoBarPart /\ part_idx = 0 /\ position = 0
    /\ part_divisions = <<>> /\ open_ties = <<>>
    /\ current_beams = <<>> /\ open_beams = <<>>
    /\ open_tuplets = <<>> /\ current_tuplets = <<>>
    /\ open_slurs = <<>> /\ complete_slurs = <<>>
    /\ current_grace_note_group = 0
    /\ next_event_id = 1 /\ next_note_id = 1
    /\ current_octave_shift = NoShift /\ complete_octave_shifts = <<>>
    /\ notes = <<>> /\ events = <<>> /\ seqs = <<>> /\ tuplets = <<>>
    /\ graces = <<>> /\ beams = <<>> /\ slurs = <<>>
    /\ nelems = 0 /\ last = Did("init")
    /\ prev = [open_ties |-> <<>>, open_slurs |-> <<>>, complete_slurs |-> <<>>,
               open_beams |-> <<>>, current_tuplets |-> <<>>, notes |-> <<>>,
               events |-> <<>>, seqs |-> <<>>, slurs |-> <<>>, graces |-> <<>>,
               current_grace_note_group |-> 0, current_octave_shift |-> NoShift,
               complete_octave_shifts |-> <<>>]
    /\ beam_loop = NoBeamLoop

\* a file as get_score meets it: is it a zip archive, what its container.xml
\* gives, how its inner file can be read, whether the XML parses, the root tag,
\* and for a <score-partwise> the number of <measure> elements of each <part>
File(zip, container, inner, xml, root, parts) ==
    [zip |-> zip, container |-> container, inner |-> inner, xml |-> xml, root |-> root,
     parts |-> parts]
TimewiseFile == File("no", "none", "none", "ok", "score-timewise", <<>>)

\* read_musicxml on a <score-timewise> document that get_score has imported
InitReader ==
    Constructed("part_list", [entry |-> "get_score", file |-> TimewiseFile,
                              reader |-> TRUE, doc |-> AnyDocument, out |-> "none"])

\* read(), line 219: parse_part_list on one of the part-lists
ParsePartList(part_lists) ==
    /\ pc = "part_list"
    /\ \E els \in part_lists :
          Step(ParsePartListFrom(Reader, els, 1), "measures", Did("parse_part_list"))
    /\ UNCHANGED <<part_idx, nelems, beam_loop, imp>>

\* parse_measures, lines 276-278: the next <measure>
BeginMeasure ==
    /\ pc = "measures" /\ Len(bars) < MaxMeasures /\ MoreMeasures
    /\ Step([Reader EXCEPT !.bars = Append(@, NewBar(Len(bars)))], "measure", Did("measure"))
    /\ part_idx' = 0
    /\ UNCHANGED <<nelems, beam_loop, imp>>

\* parse_measures, lines 279-280, and parse_measure_part, lines 283-285: the next
\* <part> of the <measure>; parts[part_idx] raises IndexError past the declared parts
BeginMeasurePart ==
    /\ pc = "measure" /\ part_idx < MaxMeasureParts /\ MoreMeasureParts
    /\ IF part_idx + 1 > Len(score_parts)
       THEN Step(Raise(Reader, "IndexError"), "children", Did("part"))
       ELSE Step([Reader EXCEPT !.bar_part = NoBarPart, !.position = 0],
                 "children", Did("part"))
    /\ part_idx' = part_idx + 1
    /\ UNCHANGED <<nelems, beam_loop, imp>>

\* parse_measure_part, lines 286-299: the next child of the <part>, out of `elements`
ReadChild(elements) ==
    /\ pc = "children" /\ nelems < MaxElems
    /\ \E el \in elements :
          Step(ParseChild(Reader, el, Len(bars), Part), "children",
               [op |-> "child", el |-> el,
                note |-> IF el.tag = "note" THEN Len(notes) + 1 ELSE 0])
    /\ nelems' = nelems + 1
    /\ UNCHANGED <<part_idx, beam_loop, imp>>

\* parse_measure_part, line 300: the <part> has no more children
EndChildren ==
    /\ pc = "children"
    /\ Step(PutBarPart(Reader, Len(bars), Part.part_id), "slurs", Did("bar_part"))
    /\ UNCHANGED <<part_idx, nelems, beam_loop, imp>>

\* parse_measure_part, lines 305-308
HandleSlurs ==
    /\ pc = "slurs"
    /\ Step(AddSlurs(Reader, 1), "tuplets", Did("slurs"))
    /\ UNCHANGED <<part_idx, nelems, beam_loop, imp>>

\* parse_measure_part, lines 310-313
HandleTuplets ==
    /\ pc = "tuplets"
    /\ Step(SetTuplets(Reader, 1), "beams", Did("tuplets"))
    /\ UNCHANGED <<part_idx, nelems, beam_loop, imp>>

\* parse_measure_part, line 316
HandleBeams ==
    /\ pc = "beams"
    /\ Step(ProcessBeams(Reader, Part.part_id), "shifts", Did("beams"))
    /\ UNCHANGED <<part_idx, nelems, beam_loop, imp>>

\* process_beams taken one marker at a time: lines 807-810
BeamsEnter ==
    /\ pc = "beams"
    /\ Step(ProcessBeamsEnter(Reader, Part.part_id).r, "beam_loop", Did("beams"))
    /\ beam_loop' = [i |-> 1, j |-> 1, pending_ends |-> <<>>]
    /\ UNCHANGED <<part_idx, nelems, imp>>

\* process_beams, lines 811-858: the next marker
BeamsMarker ==
    /\ pc = "beam_loop" /\ beam_loop.i <= Len(current_beams)
    /\ LET B == BeamMarker([r |-> Reader, i |-> beam_loop.i, j |-> beam_loop.j,
                            pending_ends |-> beam_loop.pending_ends], Part.part_id)
           beam == SortBeamData(current_beams[beam_loop.i].beam_data)[beam_loop.j]
       IN  /\ Step(B.r, "beam_loop",
                   [op |-> "beam", el |-> [tag |-> "beam", number |-> beam[1], text |-> beam[2]],
                    note |-> 0])
           /\ beam_loop' = [i |-> B.i, j |-> B.j, pending_ends |-> B.pending_ends]
    /\ UNCHANGED <<part_idx, nelems, imp>>

\* process_beams, line 859
BeamsExit ==
    /\ pc = "beam_loop" /\ beam_loop.i > Len(current_beams)
    /\ Step(ProcessBeamsExit(Reader), "shifts", Did("beams"))
    /\ beam_loop' = NoBeamLoop
    /\ UNCHANGED <<part_idx, nelems, imp>>

\* parse_measure_part, lines 319-321
HandleOctaveShifts ==
    /\ pc = "shifts"
    /\ Step(AddOctaveShifts(Reader, 1), "measure", Did("octave_shifts"))
    /\ UNCHANGED <<part_idx, nelems, beam_loop, imp>>

\* parse_measures: the <measure> has no more <part>
EndMeasure ==
    /\ pc = "measure" /\ NoMoreMeasureParts
    /\ Step(Reader, "measures", Did("end_measure"))
    /\ UNCHANGED <<part_idx, nelems, beam_loop, imp>>

\* read(), line 221: no more <measure>, the Score is returned
Return ==
    /\ pc = "measures" /\ NoMoreMeasures
    /\ Step(Reader, "done", Did("return"))
    /\ UNCHANGED <<part_idx, nelems, beam_loop, imp>>

\* parse_measures around everything but the children and the beams
Measures ==
    \/ BeginMeasure
    \/ BeginMeasurePart
    \/ EndChildren
    \/ HandleSlurs
    \/ HandleTuplets
    \/ HandleOctaveShifts
    \/ EndMeasure
    \/ Return

\* ----------------------------------------------------------- the documents
\* The elements the documents are made of
ScorePart == [has_id |-> TRUE, transpose |-> NoTranspose]
PartList(n) == [i \in 1..n |-> ScorePart]

PitchEl(step, octave) ==
    [tag |-> "pitch", step |-> step, alter |-> TMissing, octave |-> TInt(octave)]
TypeEl(text) == [tag |-> "type", text |-> text]
VoiceEl(text) == [tag |-> "voice", text |-> text]
Notations(children) == [tag |-> "notations", children |-> children]
Tied(type) == [tag |-> "tied", type |-> type]
SlurEl(type, number) ==
    [tag |-> "slur", type |-> type, number |-> number, placement |-> "missing",
     default_x |-> "missing"]
TupletEl(type, number) == [tag |-> "tuplet", type |-> type, number |-> number]
BeamEl(number, text) == [tag |-> "beam", number |-> TInt(number), text |-> text]
NoteEl(children) == [tag |-> "note", children |-> children]

\* ------------------------------------------------------------------- ties
TieNote(step, types) ==
    NoteEl(<<PitchEl(step, 4), TypeEl("quarter"),
             Notations([i \in 1..Len(types) |-> Tied(types[i])])>>)

TieElements ==
    {NoteEl(<<[tag |-> "rest"], TypeEl("quarter"), Notations(<<Tied("start")>>)>>),
     TieNote("D", <<"start">>), TieNote("D", <<"stop">>), TieNote("D", <<"stop", "start">>),
     TieNote("E", <<"start">>), TieNote("E", <<"stop">>)}

TiePartLists == {PartList(n) : n \in 1..MaxParts}

NextTie ==
    \/ ParsePartList(TiePartLists)
    \/ ReadChild(TieElements)
    \/ HandleBeams
    \/ Measures

SpecTie == InitReader /\ [][NextTie]_vars

\* ------------------------------------------------------ ties
\* the last step read a <note> whose <notations> hold one <tied>, a stop
TiedStopRead ==
    /\ last.op = "child" /\ last.el.tag = "note"
    /\ \E i \in 1..Len(last.el.children) : last.el.children[i] = Notations(<<Tied("stop")>>)

\* the places of the open-tie list, before the step, of the other notes with the
\* pitch of the note read
TieMatches ==
    {i \in 1..Len(prev.open_ties) :
        /\ prev.open_ties[i] # last.note
        /\ prev.notes[prev.open_ties[i]].pitch = notes[last.note].pitch}

EarliestTieMatch == CHOOSE i \in TieMatches : \A j \in TieMatches : i <= j

\* C1: when a tied-stop is read on a note N and the open-tie list holds other
\* notes of N's pitch, the earliest-opened of them, and only it, leaves the list
\* and is linked to N, the other open ties keep their order and no other note is
\* linked; when the list holds no such note, the list and the notes stay as they are
C1_TieMatching ==
    TiedStopRead =>
        IF TieMatches = {}
        THEN /\ open_ties = prev.open_ties
             /\ \A n \in 1..Len(prev.notes) : notes[n] = prev.notes[n]
        ELSE /\ Len(open_ties) = Len(prev.open_ties) - 1
             /\ \A j \in 1..Len(open_ties) :
                    open_ties[j] = prev.open_ties[IF j < EarliestTieMatch THEN j ELSE j + 1]
             /\ notes[prev.open_ties[EarliestTieMatch]].tie_end_note = notes[last.note].note_id
             /\ \A n \in 1..Len(prev.notes) :
                    n # prev.open_ties[EarliestTieMatch] => notes[n] = prev.notes[n]

\* the case of C1 with the earliest match behind an open tie of another pitch
C1_Witness ==
    /\ TiedStopRead /\ status = "ok"
    /\ TieMatches # {} /\ EarliestTieMatch > 1

\* ----------------------------------------------------------------- chords
ChordEl == [tag |-> "chord"]
DurationEl(digits) == [tag |-> "duration", digits |-> digits]
Attributes(children) == [tag |-> "attributes", children |-> children]

ChordElements ==
    {NoteEl(<<PitchEl("D", 4), TypeEl("quarter")>>),
     NoteEl(<<ChordEl, PitchEl("E", 4), TypeEl("quarter")>>),
     NoteEl(<<ChordEl, PitchEl("E", 4), TypeEl("half")>>),
     NoteEl(<<ChordEl, PitchEl("E", 4), TypeEl("quarter"), [tag |-> "dot"]>>),
     NoteEl(<<ChordEl, PitchEl("E", 4), TypeEl("quarter"), VoiceEl("2")>>),
     NoteEl(<<ChordEl, PitchEl("E", 4), DurationEl(TInt(1))>>),
     NoteEl(<<[tag |-> "grace"], PitchEl("C", 4), TypeEl("eighth")>>),
     Attributes(<<[tag |-> "divisions", digits |-> TInt(1)]>>)}

NextChord ==
    \/ ParsePartList({PartList(1)})
    \/ ReadChild(ChordElements)
    \/ HandleBeams
    \/ Measures

SpecChord == InitReader /\ [][NextChord]_vars

\* the last step read a <note> with <chord> and came to the chord test
ChordRead ==
    /\ last.op = "child" /\ last.el.tag = "note"
    /\ \E i \in 1..Len(last.el.children) : last.el.children[i] = ChordEl
    /\ notes[last.note].sequence # 0

\* the last Event among the items that the note's sequence had before the step; 0
\* when it had none
EventBeforeChord ==
    LET sequence == notes[last.note].sequence
        items == IF sequence > Len(prev.seqs) THEN <<>> ELSE prev.seqs[sequence].items
        at == {i \in 1..Len(items) : items[i].k = "Event"}
    IN  IF at = {} THEN 0 ELSE items[CHOOSE i \in at : \A j \in at : j <= i].id

\* C2: a note with <chord> that finds an event in its voice's sequence joins it
\* only with the event's duration (note value and dots), and ends the conversion
\* with a NotationDataError otherwise; so all the members of an event have the
\* event's duration
C2_ChordDuration ==
    /\ \A e \in 1..Len(events) : \A k \in 1..Len(events[e].event_items) :
          notes[events[e].event_items[k].id].rhythmic_duration = events[e].duration
    /\ (ChordRead /\ EventBeforeChord # 0) =>
          IF notes[last.note].rhythmic_duration = prev.events[EventBeforeChord].duration
          THEN /\ status = "ok"
               /\ InSeq(Ref("Note", last.note), events[EventBeforeChord].event_items)
          ELSE /\ status = "NotationDataError"
               /\ events[EventBeforeChord] = prev.events[EventBeforeChord]

\* a Score is returned in which a note with <chord> has joined an event
C2_Witness ==
    /\ pc = "done"
    /\ \E e \in 1..Len(events) : Len(events[e].event_items) >= 2

\* ------------------------------------------------------------------ beams
BeamNote(beam_els) ==
    NoteEl(<<PitchEl("D", 4), TypeEl("eighth")>> \o beam_els)

BeamElements ==
    {BeamNote(<<BeamEl(1, "begin")>>),
     BeamNote(<<BeamEl(2, "begin")>>),
     BeamNote(<<BeamEl(2, "begin"), BeamEl(1, "begin")>>),
     BeamNote(<<BeamEl(1, "end"), BeamEl(2, "end")>>),
     BeamNote(<<BeamEl(1, "continue"), BeamEl(2, "forward hook")>>)}

\* the beams of a measure-part are taken one marker at a time
NextBeam ==
    \/ ParsePartList({PartList(2)})
    \/ ReadChild(BeamElements)
    \/ BeamsEnter
    \/ BeamsMarker
    \/ BeamsExit
    \/ Measures

SpecBeam == InitReader /\ [][NextBeam]_vars

\* the last step took a `begin` marker
BeginTaken == last.op = "beam" /\ last.el.text = "begin"

\* the part's open-beam table had no beam of the number below the marker's
Orphan == (last.el.number - 1) \notin DOMAIN prev.open_beams[Part.part_id]

\* C3: in the beam processing at the end of a measure-part, a `begin` marker of a
\* number N > 1 taken while the part's open-beam table holds no beam of number
\* N - 1 ends the conversion with a NotationDataError; a `begin` of number 1
\* never does
C3_BeamNesting ==
    BeginTaken =>
        /\ (last.el.number > 1 /\ Orphan) => status = "NotationDataError"
        /\ last.el.number = 1 => status # "NotationDataError"

\* a `begin` of number 2 is taken while no beam of number 1 is open in the part,
\* after beams have been opened and closed before
C3_Witness ==
    /\ BeginTaken /\ last.el.number > 1 /\ Orphan
    /\ Len(beams) >= 2 /\ status = "NotationDataError"

\* ------------------------------------------------------------------ slurs
SlurNote(step, slur_els) == NoteEl(<<PitchEl(step, 4), TypeEl("quarter"), Notations(slur_els)>>)

SlurElements ==
    {NoteEl(<<PitchEl("C", 4), TypeEl("quarter")>>),
     SlurNote("D", <<SlurEl("start", TInt(1))>>),
     SlurNote("E", <<SlurEl("stop", TInt(1))>>),
     SlurNote("F", <<SlurEl("stop", TInt(2))>>),
     SlurNote("G", <<SlurEl("stop", TMissing), SlurEl("start", TInt(2))>>)}

NextSlur ==
    \/ ParsePartList({PartList(1)})
    \/ ReadChild(SlurElements)
    \/ HandleBeams
    \/ Measures

SpecSlur == InitReader /\ [][NextSlur]_vars

\* the last step read a <note> whose <notations> hold one <slur>, a stop of a
\* number under which no slur was open
UnmatchedStopRead ==
    /\ last.op = "child" /\ last.el.tag = "note"
    /\ \E i \in 1..Len(last.el.children) :
          /\ last.el.children[i].tag = "notations"
          /\ Len(last.el.children[i].children) = 1
          /\ last.el.children[i].children[1].type = "stop"
          /\ last.el.children[i].children[1].number.val \notin DOMAIN prev.open_slurs

\* C4: a <slur type="stop"> of a number under which no slur is open is dropped:
\* the completed-slur list and the open-slur table stay as they were, no Slur
\* is made and none is put on an event, and the conversion goes on
C4_UnmatchedSlurStop ==
    UnmatchedStopRead =>
        /\ status = "ok"
        /\ complete_slurs = prev.complete_slurs
        /\ open_slurs = prev.open_slurs
        /\ slurs = prev.slurs
        /\ \A e \in 1..Len(events) :
              events[e].slurs = IF e <= Len(prev.events) THEN prev.events[e].slurs ELSE <<>>

\* a stop of number 2 is read while only a slur of number 1 is open
C4_Witness ==
    /\ UnmatchedStopRead /\ status = "ok"
    /\ DOMAIN prev.open_slurs # {}

\* ---------------------------------------------------------------- tuplets
TimeModificationEl(actual, normal) ==
    [tag |-> "time-modification", actual |-> TInt(actual), normal |-> TInt(normal),
     normal_type |-> "missing"]

TupletNote(step, voice, tuplet_els) ==
    NoteEl(<<PitchEl(step, 4), VoiceEl(voice), TypeEl("eighth"), TimeModificationEl(3, 2),
             Notations(tuplet_els)>>)

TupletElements ==
    {NoteEl(<<PitchEl("C", 4), VoiceEl("1"), TypeEl("eighth")>>),
     NoteEl(<<PitchEl("C", 4), VoiceEl("2"), TypeEl("eighth")>>),
     NoteEl(<<[tag |-> "grace"], PitchEl("B", 4), VoiceEl("1"), TypeEl("eighth")>>),
     TupletNote("D", "1", <<TupletEl("start", "1")>>),
     TupletNote("E", "1", <<TupletEl("stop", "1")>>)}

NextTuplet ==
    \/ ParsePartList({PartList(1)})
    \/ ReadChild(TupletElements)
    \/ HandleBeams
    \/ Measures

SpecTuplet == InitReader /\ [][NextTuplet]_vars

\* where the item is in the list; 0 when it is not there
IndexIn(items, item) ==
    IF InSeq(item, items) THEN CHOOSE i \in 1..Len(items) : items[i] = item ELSE 0

\* the one tuplet that the measure-part's finalization had to fold
TheTuplet == prev.current_tuplets[1]
TupletItemsBefore == prev.seqs[TheTuplet.sequence].items
TupletFirst == IndexIn(TupletItemsBefore, Ref("Event", TheTuplet.event_list[1]))
TupletLast ==
    IndexIn(TupletItemsBefore, Ref("Event", TheTuplet.event_list[Len(TheTuplet.event_list)]))

\* the last step was the tuplet folding of a measure-part with one tuplet, begun
\* on one note and stopped on a later one of the same voice; its members are the
\* events that were the sequence's items from the first of them to the last
OneTupletFinalized ==
    /\ last.op = "tuplets"
    /\ Len(prev.current_tuplets) = 1
    /\ TupletFirst # 0 /\ TupletFirst < TupletLast
    /\ \A i \in TupletFirst..TupletLast : TupletItemsBefore[i].k = "Event"

\* the sequence's items with the members replaced by the Tuplet at the place of
\* the first of them
MembersFolded ==
    LET now == seqs[TheTuplet.sequence].items
        members == SubSeq(TupletItemsBefore, TupletFirst, TupletLast)
    IN  /\ Len(now) = Len(TupletItemsBefore) - Len(members) + 1
        /\ now[TupletFirst].k = "Tuplet"
        /\ now = SubSeq(TupletItemsBefore, 1, TupletFirst - 1) \o <<now[TupletFirst]>>
                    \o SubSeq(TupletItemsBefore, TupletLast + 1, Len(TupletItemsBefore))
        /\ tuplets[now[TupletFirst].id].items = members
        /\ \A i \in 1..Len(members) : events[members[i].id].parent = now[TupletFirst]

\* C5: a tuplet begun on one note and stopped on a later note of the same voice
\* in the same measure-part is folded by the finalization of the measure-part:
\* one Tuplet stands at the index of the first member, its items are the member
\* events in their order with the Tuplet as their parent, and the other items of
\* the sequence keep their order
C5_TupletFolding == OneTupletFinalized => (status = "ok" /\ MembersFolded)

\* ------------------------------------------------------- the whole reader
ClefEl(sign, line) == [tag |-> "clef", sign |-> sign, line |-> line]
KeyEl(fifths) == [tag |-> "key", fifths |-> fifths]
DivisionsEl(digits) == [tag |-> "divisions", digits |-> digits]

Elements ==
    {NoteEl(<<PitchEl("C", 4), TypeEl("quarter")>>),
     NoteEl(<<TypeEl("quarter")>>),
     Attributes(<<DivisionsEl(TInt(1)), KeyEl(TInt(2)), ClefEl("G", TInt(2))>>),
     Attributes(<<ClefEl("G", TMissing)>>),
     Attributes(<<KeyEl(TBad)>>),
     NoteEl(<<PitchEl("D", 4), DurationEl(TBad), TypeEl("quarter")>>),
     NoteEl(<<PitchEl("E", 4), TypeEl("quarter"), Notations(<<SlurEl("start", TBad)>>)>>),
     NoteEl(<<[tag |-> "rest"], TypeEl("quarter"), Notations(<<SlurEl("stop", TMissing)>>)>>),
     NoteEl(<<PitchEl("F", 4), TypeEl("eighth"),
              [tag |-> "time-modification", actual |-> TMissing, normal |-> TInt(2),
               normal_type |-> "missing"]>>),
     NoteEl(<<PitchEl("G", 4), TypeEl("eighth"), Notations(<<TupletEl("start", "1")>>)>>),
     NoteEl(<<PitchEl("A", 4), TypeEl("eighth"), Notations(<<TupletEl("stop", "2")>>)>>)}

PartLists == {PartList(n) : n \in 1..MaxParts}

Next ==
    \/ ParsePartList(PartLists)
    \/ ReadChild(Elements)
    \/ HandleBeams
    \/ Measures

Spec == InitReader /\ [][Next]_vars

\* C6: in a Score that read() returns, every bar holds a BarPart for each part id
\* of the score's parts and for no other id
C6_BarPartCompleteness ==
    pc = "done" =>
        \A b \in 1..Len(bars) :
            DOMAIN bars[b].bar_parts = {score_parts[p].part_id : p \in 1..Len(score_parts)}

\* C7: when read() does not return a Score it has ended with a NotationDataError
C7_ReaderFailureKind == pc = "failed" => status = "NotationDataError"

\* the last step read a <key> whose <fifths> is no number
BadFifthsRead ==
    /\ last.op = "child" /\ last.el.tag = "attributes"
    /\ \E i \in 1..Len(last.el.children) :
          last.el.children[i].tag = "key" /\ last.el.children[i].fifths.kind = "bad"

\* the last step read a <note> whose <duration> is no number
BadDurationRead ==
    /\ last.op = "child" /\ last.el.tag = "note"
    /\ \E i \in 1..Len(last.el.children) :
          last.el.children[i].tag = "duration" /\ last.el.children[i].digits.kind = "bad"

\* the last step read a <note> with a <slur> whose number is no number
BadSlurNumberRead ==
    /\ last.op = "child" /\ last.el.tag = "note"
    /\ \E i \in 1..Len(last.el.children) :
          /\ last.el.children[i].tag = "notations"
          /\ \E j \in 1..Len(last.el.children[i].children) :
                /\ last.el.children[i].children[j].tag = "slur"
                /\ last.el.children[i].children[j].number.kind = "bad"

\* C8: an unparsable <fifths>, an unparsable <duration> text and an unparsable
\* slur number are not replaced by a default: the reader does not go on past
\* them as if a value had been given
C8_NoUndocumentedDefaults ==
    (BadFifthsRead \/ BadDurationRead \/ BadSlurNumberRead) => status # "ok"

\* ------------------------------------------------------------- the import
\* get_musicxml_etree up to musicxml_string: "ok", or the exception raised
GetMusicxmlString(f) ==
    IF f.zip = "no" THEN "ok"
    \* zipfile.ZipFile(fp, 'r') stands outside every try
    ELSE IF f.zip = "corrupt" THEN "BadZipFile"
    ELSE IF f.container = "missing" THEN "NotationImportError"
    ELSE IF f.container = "unparsable" THEN "NotationImportError"
    ELSE IF f.container = "no-rootfile" THEN "NotationImportError"
    ELSE IF f.container = "no-full-path" THEN "NotationImportError"
    \* neither the full-path nor another .xml of the archive could be read
    ELSE IF f.inner = "none" THEN "NotationImportError"
    ELSE "ok"

\* get_musicxml_etree: the root tag of the parsed document
GetMusicxmlEtree(f) ==
    IF GetMusicxmlString(f) # "ok" THEN [status |-> GetMusicxmlString(f), root |-> ""]
    ELSE IF f.xml = "unparsable" THEN [status |-> "NotationImportError", root |-> ""]
    ELSE [status |-> "ok", root |-> f.root]

\* convert_to_timewise: a <measure> for each <measure> of the first <part>, and in
\* the i-th of them a <part> for each <part> that has an i-th <measure>
ConvertToTimewise(parts) ==
    IF parts = <<>> THEN [status |-> "NotationImportError", doc |-> AnyDocument]
    ELSE [status |-> "ok",
          doc |-> [free |-> FALSE,
                   measures |-> [i \in 1..parts[1] |->
                                    Cardinality({p \in 1..Len(parts) : parts[p] >= i})]]]

\* a clean-up that takes every root that is not <score-partwise> for timewise
CleanMusicxmlAnyRoot(root, parts) ==
    IF root = "score-partwise" THEN ConvertToTimewise(parts)
    ELSE [status |-> "ok", doc |-> AnyDocument]

\* clean_musicxml
CleanMusicxml(root, parts) ==
    IF root = "score-partwise" THEN ConvertToTimewise(parts)
    ELSE IF root # "score-timewise" THEN [status |-> "NotationImportError", doc |-> AnyDocument]
    ELSE [status |-> "ok", doc |-> AnyDocument]

\* get_score up to the construction of the MusicXMLReader
ImportFile(f) ==
    IF GetMusicxmlEtree(f).status # "ok"
    THEN [status |-> GetMusicxmlEtree(f).status, doc |-> AnyDocument]
    ELSE CleanMusicxml(GetMusicxmlEtree(f).root, f.parts)

\* the module body of mnx.py: its tables name class attributes of score.py
ImportMnx ==
    IF {"SIDE_UP", "SIDE_DOWN", "INCOMPLETE_TYPE_INCOMING", "INCOMPLETE_TYPE_OUTGOING"}
          \subseteq SlurClassAttributes
    THEN "ok" ELSE "AttributeError"

\* the keys of NOTE_VALUE_BASES
NOTE_VALUE_BASES ==
    {<<16, 1>>, <<8, 1>>, <<4, 1>>, <<2, 1>>, <<1, 1>>, <<1, 2>>, <<1, 4>>, <<1, 8>>,
     <<1, 16>>, <<1, 32>>, <<1, 64>>, <<1, 128>>, <<1, 256>>, <<1, 512>>, <<1, 1024>>,
     <<1, 2048>>, <<1, 4096>>}

\* NOTE_VALUE_BASES[frac]: the name of a note value
NoteValueBase(frac) ==
    CASE frac = <<16, 1>> -> "duplexMaxima" [] frac = <<8, 1>> -> "maxima"
      [] frac = <<4, 1>> -> "longa" [] frac = <<2, 1>> -> "breve"
      [] frac = <<1, 1>> -> "whole" [] frac = <<1, 2>> -> "half"
      [] frac = <<1, 4>> -> "quarter" [] frac = <<1, 8>> -> "eighth"
      [] frac = <<1, 16>> -> "16th" [] frac = <<1, 32>> -> "32nd"
      [] frac = <<1, 64>> -> "64th" [] frac = <<1, 128>> -> "128th"
      [] frac = <<1, 256>> -> "256th" [] frac = <<1, 512>> -> "512th"
      [] frac = <<1, 1024>> -> "1024th" [] frac = <<1, 2048>> -> "2048th"
      [] frac = <<1, 4096>> -> "4096th"

\* a note value that is written whatever the fraction is
EncodeNoteValueDefault(duration) ==
    [status |-> "ok", base |-> IF duration.frac \in NOTE_VALUE_BASES
                               THEN NoteValueBase(duration.frac) ELSE "quarter",
     dots |-> duration.dots]

\* MNXWriter.encode_note_value
EncodeNoteValue(duration) ==
    IF duration.frac \notin NOTE_VALUE_BASES
    THEN [status |-> "ValueError", base |-> "", dots |-> 0]
    ELSE [status |-> "ok", base |-> NoteValueBase(duration.frac), dots |-> duration.dots]

\* MNXWriter.encode_pitch; an alter of 0 is left out of the output
EncodePitch(pitch) == [step |-> pitch.step, octave |-> pitch.octave, alter |-> pitch.alter]

\* MNXWriter.encode_note on an event item. The fields it reads are looked up
\* on the object the reader made: a Rest has no pitch, and a Note has ties and
\* tie_end_note but no tie. An `id` of 0 stands for no `id` key
EncodeNote(r, item) ==
    IF item.k # "Note" THEN [status |-> "AttributeError"]
    ELSE IF "tie" \notin DOMAIN r.notes[item.id] THEN [status |-> "AttributeError"]
    ELSE [status |-> "ok",
          pitch |-> EncodePitch(r.notes[item.id].pitch),
          id |-> IF r.notes[item.id].is_referenced THEN r.notes[item.id].note_id ELSE 0,
          accidentalDisplay |-> r.notes[item.id].rendered_acc # "None",
          tie |-> IF r.notes[item.id].tie.some
                  THEN [target |-> r.notes[r.notes[item.id].tie.end_note].note_id]
                  ELSE [target |-> 0]]

\* Event.is_rest
IsRest(r, e) ==
    \A k \in 1..Len(r.events[e].event_items) : r.events[e].event_items[k].k # "Note"

\* MNXWriter.encode_event: "ok", or the exception raised. An event that is no
\* rest hands each of its event items to encode_note
EncodeEvent(r, e) ==
    IF EncodeNoteValue(r.events[e].duration).status # "ok"
    THEN EncodeNoteValue(r.events[e].duration).status
    ELSE IF IsRest(r, e) THEN "ok"
    ELSE IF \E k \in 1..Len(r.events[e].event_items) :
                EncodeNote(r, r.events[e].event_items[k]).status # "ok"
         THEN "AttributeError"
    ELSE "ok"

\* an event written with its id whether or not it is referenced
EncodedEventWithId(r, e) ==
    [kind |-> "event",
     duration |-> EncodeNoteValue(r.events[e].duration),
     id |-> r.events[e].event_id,
     rest |-> IsRest(r, e),
     notes |-> <<>>,
     slurs |-> r.events[e].slurs,
     markings |-> r.events[e].markings]

\* MNXWriter.encode_event: the dictionary it returns when it returns one. An
\* `id` of 0 stands for no `id` key, empty slurs and markings for no such key
EncodedEvent(r, e) ==
    [kind |-> "event",
     duration |-> EncodeNoteValue(r.events[e].duration),
     id |-> IF r.events[e].is_referenced THEN r.events[e].event_id ELSE 0,
     rest |-> IsRest(r, e),
     notes |-> IF IsRest(r, e) THEN <<>>
               ELSE [k \in 1..Len(r.events[e].event_items) |->
                        EncodeNote(r, r.events[e].event_items[k])],
     slurs |-> r.events[e].slurs,
     markings |-> r.events[e].markings]

\* encode_event over a list of events from index i
RECURSIVE EncodeEvents(_, _, _)
EncodeEvents(r, evs, i) ==
    IF i > Len(evs) THEN "ok"
    ELSE IF EncodeEvent(r, evs[i]) # "ok" THEN EncodeEvent(r, evs[i])
    ELSE EncodeEvents(r, evs, i + 1)

\* MNXWriter.encode_sequence_item over a list of items from index i
RECURSIVE EncodeItems(_, _, _)
EncodeItems(r, items, i) ==
    IF i > Len(items) THEN "ok"
    ELSE LET st == CASE items[i].k = "Event" -> EncodeEvent(r, items[i].id)
                     [] items[i].k = "Tuplet" ->
                          IF r.tuplets[items[i].id].ratio = NoneRatio THEN "AttributeError"
                          ELSE EncodeItems(r, r.tuplets[items[i].id].items, 1)
                     [] items[i].k = "GraceNoteGroup" ->
                          EncodeEvents(r, r.graces[items[i].id].events, 1)
                     [] OTHER -> "ok"
         IN  IF st # "ok" THEN st ELSE EncodeItems(r, items, i + 1)

\* MNXWriter.encode_part_measure over the sequences from index i
RECURSIVE EncodeSequences(_, _, _)
EncodeSequences(r, sequences, i) ==
    IF i > Len(sequences) THEN "ok"
    ELSE IF EncodeItems(r, r.seqs[sequences[i]].items, 1) # "ok"
         THEN EncodeItems(r, r.seqs[sequences[i]].items, 1)
    ELSE EncodeSequences(r, sequences, i + 1)

\* MNXWriter.encode_parts: part p from bar b on, then the parts after it
RECURSIVE EncodeParts(_, _, _)
EncodeParts(r, p, b) ==
    IF p > Len(r.score_parts) THEN "ok"
    ELSE IF b > Len(r.bars) THEN EncodeParts(r, p + 1, 1)
    ELSE IF r.score_parts[p].part_id \notin DOMAIN r.bars[b].bar_parts THEN "KeyError"
    ELSE IF EncodeSequences(r, r.bars[b].bar_parts[r.score_parts[p].part_id].sequences, 1) # "ok"
         THEN EncodeSequences(r, r.bars[b].bar_parts[r.score_parts[p].part_id].sequences, 1)
    ELSE EncodeParts(r, p, b + 1)

\* mnx.put_score: "ok", or the exception raised. encode_global comes first and
\* reads .unit of a bar's time signature, which the reader has stored as a list
PutScore(r) ==
    IF \E b \in 1..Len(r.bars) : r.bars[b].timesig # <<>> THEN "AttributeError"
    ELSE EncodeParts(r, 1, 1)

\* convert.py from the try on: what the script ends with
ConvertOutcome(r) ==
    IF r.status \in {"NotationDataError", "NotationImportError"} THEN "error"
    ELSE IF r.status # "ok" THEN "unhandled"
    ELSE IF PutScore(r) = "ok" THEN "document"
    ELSE "unhandled"

\* before anything is called
InitImport ==
    Constructed("start", [entry |-> "none", file |-> TimewiseFile, reader |-> FALSE,
                          doc |-> AnyDocument, out |-> "none"])

\* convert.py, lines 1-6: the imports, and the file is read
RunConvert(files) ==
    /\ pc = "start"
    /\ IF ImportMnx # "ok"
       THEN /\ pc' = "exited"
            /\ status' = ImportMnx
            /\ imp' = [imp EXCEPT !.entry = "convert.py", !.out = "unhandled"]
       ELSE /\ pc' = "get_score"
            /\ status' = status
            /\ \E f \in files : imp' = [imp EXCEPT !.entry = "convert.py", !.file = f]
    /\ last' = Did("convert.py")
    /\ prev' = Tables
    /\ UNCHANGED <<score_parts, bars, bar_part, part_idx, position, part_divisions,
                   open_ties, current_beams, open_beams, open_tuplets, current_tuplets,
                   open_slurs, complete_slurs, current_grace_note_group, next_event_id,
                   next_note_id, current_octave_shift, complete_octave_shifts, notes,
                   events, seqs, tuplets, graces, beams, slurs, nelems, beam_loop>>

\* a program that imports mnxconverter.musicxml and calls get_score on a file
CallGetScore(files) ==
    /\ pc = "start"
    /\ \E f \in files : imp' = [imp EXCEPT !.entry = "get_score", !.file = f]
    /\ Step(Reader, "get_score", Did("call"))
    /\ UNCHANGED <<part_idx, nelems, beam_loop>>

\* get_score, lines 81-83 up to MusicXMLReader(xml)
GetScore ==
    /\ pc = "get_score"
    /\ Step(Raise(Reader, ImportFile(imp.file).status), "part_list", Did("get_score"))
    /\ imp' = IF ImportFile(imp.file).status # "ok" THEN imp
              ELSE [imp EXCEPT !.reader = TRUE, !.doc = ImportFile(imp.file).doc]
    /\ UNCHANGED <<part_idx, nelems, beam_loop>>

\* get_score has returned the Score or raised: the caller has it, and convert.py
\* prints what it prints
Finish ==
    /\ pc \in {"done", "failed"}
    /\ pc' = "exited"
    /\ imp' = [imp EXCEPT !.out = IF imp.entry = "convert.py" THEN ConvertOutcome(Reader)
                                  ELSE IF pc = "done" THEN "score" ELSE "exception"]
    /\ last' = Did("finish")
    /\ prev' = Tables
    /\ UNCHANGED <<status, score_parts, bars, bar_part, part_idx, position, part_divisions,
                   open_ties, current_beams, open_beams, open_tuplets, current_tuplets,
                   open_slurs, complete_slurs, current_grace_note_group, next_event_id,
                   next_note_id, current_octave_shift, complete_octave_shifts, notes,
                   events, seqs, tuplets, graces, beams, slurs, nelems, beam_loop>>

Files ==
    {File("yes", "missing", "none", "ok", "score-timewise", <<>>),
     File("yes", "unparsable", "none", "ok", "score-timewise", <<>>),
     File("yes", "no-rootfile", "none", "ok", "score-timewise", <<>>),
     File("yes", "no-full-path", "none", "ok", "score-timewise", <<>>),
     File("yes", "ok", "none", "ok", "score-timewise", <<>>),
     File("yes", "ok", "named", "ok", "score-timewise", <<>>),
     File("yes", "ok", "fallback", "unparsable", "none", <<>>),
     File("yes", "ok", "named", "ok", "opus", <<>>),
     File("corrupt", "none", "none", "ok", "score-timewise", <<>>),
     File("no", "none", "none", "unparsable", "none", <<>>),
     File("no", "none", "none", "ok", "opus", <<>>),
     File("no", "none", "none", "ok", "score-partwise", <<>>),
     File("no", "none", "none", "ok", "score-partwise", <<1>>),
     File("no", "none", "none", "ok", "score-partwise", <<2, 1>>),
     File("no", "none", "none", "ok", "score-partwise", <<1, 2>>),
     File("yes", "ok", "fallback", "ok", "score-partwise", <<2, 2>>)}

ImportElements == {NoteEl(<<PitchEl("C", 4), TypeEl("quarter")>>), NoteEl(<<TypeEl("quarter")>>)}

NextImport ==
    \/ RunConvert(Files)
    \/ CallGetScore(Files)
    \/ GetScore
    \/ ParsePartList(PartLists)
    \/ ReadChild(ImportElements)
    \/ HandleBeams
    \/ Measures
    \/ Finish

SpecImport == InitImport /\ [][NextImport]_vars

\* the failures of the import that are told apart: a zip archive without
\* container.xml, with one that does not parse, without a rootfile, without a
\* full-path or without an inner file that can be read; XML that does not parse;
\* a root that is neither <score-partwise> nor <score-timewise>
ListedImportFailure(f) ==
    \/ /\ f.zip = "yes"
       /\ \/ f.container \in {"missing", "unparsable", "no-rootfile", "no-full-path"}
          \/ f.inner = "none"
    \/ /\ f.zip = "no" \/ (f.zip = "yes" /\ f.container = "ok" /\ f.inner # "none")
       /\ \/ f.xml = "unparsable"
          \/ f.root \notin {"score-partwise", "score-timewise"}

\* C9: get_score on a file with one of these failures ends with a
\* NotationImportError; no reader is made, no part and no bar is read, and the
\* caller gets no Score
C9_ImportErrors ==
    (imp.entry = "get_score" /\ pc # "get_score" /\ ListedImportFailure(imp.file)) =>
        /\ pc \in {"failed", "exited"}
        /\ status = "NotationImportError"
        /\ ~imp.reader
        /\ score_parts = <<>> /\ bars = <<>>
        /\ imp.out \in {"none", "exception"}

\* a zip archive whose inner file is found but holds no XML has been refused
C9_Witness ==
    /\ last.op = "get_score" /\ ListedImportFailure(imp.file)
    /\ imp.file.zip = "yes" /\ imp.file.xml = "unparsable"
    /\ status = "NotationImportError" /\ pc = "failed"

\* C10: the command line ends with the emitted document printed or with
\* "Error: <message>" printed, and lets no exception out
C10_CliOutcome ==
    (imp.entry = "convert.py" /\ pc = "exited") => imp.out \in {"document", "error"}

\* ------------------------------------------------------------ the writers
\* a bar's own key when it defines one, else the default, whatever the bars
\* before it define
ActiveKeysigOwn(r, b) ==
    IF b >= 1 /\ r.bars[b].keysig.some THEN r.bars[b].keysig.fifths ELSE DEFAULT_KEYSIG

\* Bar.active_keysig of the bar at place b of score.bars (its idx is b - 1): the
\* fifths of the nearest bar at or before it with a keysig, else DEFAULT_KEYSIG
RECURSIVE ActiveKeysig(_, _)
ActiveKeysig(r, b) ==
    IF b < 1 THEN DEFAULT_KEYSIG
    ELSE IF r.bars[b].keysig.some THEN r.bars[b].keysig.fifths
    ELSE ActiveKeysig(r, b - 1)

\* Bar.keysig_changed
KeysigChanged(r, b) ==
    IF r.bars[b].idx = 0
    THEN r.bars[b].keysig.some /\ r.bars[b].keysig.fifths # 0
    ELSE ActiveKeysig(r, b - 1) # ActiveKeysig(r, b)

\* Bar.timesig_changed. The reader stores a time signature as a list of two
\* numbers, and a list has no equals
TimesigChanged(r, b) ==
    IF r.bars[b].idx = 0 THEN [status |-> "ok", val |-> TRUE]
    ELSE IF r.bars[b].timesig = <<>> THEN [status |-> "ok", val |-> FALSE]
    ELSE IF r.bars[b - 1].timesig = <<>> THEN [status |-> "ok", val |-> TRUE]
    ELSE [status |-> "AttributeError", val |-> FALSE]

\* MNXWriter.encode_measure_global: the `time` and `key` of a bar. For `time`
\* it reads .unit of the time signature, and a list has none
EncodeMeasureGlobal(r, b) ==
    IF r.bars[b].timesig # <<>> /\ TimesigChanged(r, b).status # "ok"
    THEN [status |-> TimesigChanged(r, b).status]
    ELSE IF r.bars[b].timesig # <<>> /\ TimesigChanged(r, b).val
    THEN [status |-> "AttributeError"]
    ELSE [status |-> "ok", time |-> FALSE,
          key |-> r.bars[b].keysig.some /\ KeysigChanged(r, b),
          fifths |-> r.bars[b].keysig.fifths]

\* MNXWriter.encode_sequence_item over a list of items: the list of what it returns
RECURSIVE EncodedItems(_, _)
EncodedItems(r, items) ==
    [k \in 1..Len(items) |->
        CASE items[k].k = "Event" -> EncodedEvent(r, items[k].id)
          [] items[k].k = "Tuplet" ->
                [kind |-> "tuplet",
                 content |-> EncodedItems(r, r.tuplets[items[k].id].items)]
          [] items[k].k = "GraceNoteGroup" ->
                [kind |-> "grace",
                 content |-> [j \in 1..Len(r.graces[items[k].id].events) |->
                                 EncodedEvent(r, r.graces[items[k].id].events[j])]]
          [] OTHER -> [kind |-> "direction"]]

\* MNXWriter.encode_part_measure
EncodedPartMeasure(r, bp) ==
    [sequences |-> [s \in 1..Len(bp.sequences) |->
                      [content |-> EncodedItems(r, r.seqs[bp.sequences[s]].items)]]]

\* MNXWriter.encode_parts
EncodedParts(r) ==
    [p \in 1..Len(r.score_parts) |->
        [measures |-> [b \in 1..Len(r.bars) |->
                         EncodedPartMeasure(r, r.bars[b].bar_parts[r.score_parts[p].part_id])]]]

\* MNXWriter.get_filedata: the exception that leaves it, or the document that
\* is serialised
GetFiledata(r) ==
    IF PutScore(r) # "ok" THEN [status |-> PutScore(r)]
    ELSE [status |-> "ok",
          global |-> [b \in 1..Len(r.bars) |-> EncodeMeasureGlobal(r, b)],
          parts |-> EncodedParts(r)]

\* mnx.put_score(score) on the Score that read() has returned, as
\* FileformatTests.autotest calls it; out is "document" or the exception's name
PutMnxScore ==
    /\ pc = "done"
    /\ pc' = "emitted"
    /\ imp' = [imp EXCEPT !.out = IF GetFiledata(Reader).status = "ok" THEN "document"
                                  ELSE GetFiledata(Reader).status]
    /\ last' = Did("mnx.put_score")
    /\ prev' = Tables
    /\ UNCHANGED <<status, score_parts, bars, bar_part, part_idx, position, part_divisions,
                   open_ties, current_beams, open_beams, open_tuplets, current_tuplets,
                   open_slurs, complete_slurs, current_grace_note_group, next_event_id,
                   next_note_id, current_octave_shift, complete_octave_shifts, notes,
                   events, seqs, tuplets, graces, beams, slurs, nelems, beam_loop>>

\* ------------------------------------------------- the MNX-Common writer
\* mnx_common.microformat_duration on a fraction <<numerator, denominator>>:
\* "*n" for a whole number of whole notes, "/d" for one d-th, else ValueError
MicroformatDuration(duration) ==
    IF duration.frac[1] > duration.frac[2]
    THEN IF duration.frac[2] # 1 THEN [status |-> "ValueError"]
         ELSE [status |-> "ok", sign |-> "*", number |-> duration.frac[1],
               dots |-> duration.dots]
    ELSE IF duration.frac[1] # 1 THEN [status |-> "ValueError"]
         ELSE [status |-> "ok", sign |-> "/", number |-> duration.frac[2],
               dots |-> duration.dots]

\* MNXCommonWriter.write_note: the <note> it appends; an `id` of 0 stands for
\* no id attribute
WriteNote(r, item) ==
    [status |-> "ok",
     pitch |-> r.notes[item.id].pitch,
     id |-> IF r.notes[item.id].is_referenced THEN r.notes[item.id].note_id ELSE 0,
     tied |-> r.notes[item.id].tie_end_note]

\* MNXCommonWriter.write_event: the exception it raises or the <event> it
\* appends. It reads event.slur_ends, which Event.__init__ does not define and
\* the reader never sets
WriteEvent(r, e) ==
    IF MicroformatDuration(r.events[e].duration).status # "ok"
    THEN [status |-> MicroformatDuration(r.events[e].duration).status]
    ELSE IF "slur_ends" \notin DOMAIN r.events[e] THEN [status |-> "AttributeError"]
    ELSE [status |-> "ok", kind |-> "event",
          value |-> MicroformatDuration(r.events[e].duration),
          id |-> IF r.events[e].slur_ends # <<>> THEN r.events[e].event_id ELSE 0,
          notes |-> [k \in 1..Len(r.events[e].event_items) |->
                        IF r.events[e].event_items[k].k = "Note"
                        THEN WriteNote(r, r.events[e].event_items[k])
                        ELSE [status |-> "ok", id |-> 0]],
          slurs |-> r.events[e].slurs]

\* MNXCommonWriter.write_sequence_items: what it appends for each item; a grace
\* note group is passed over
RECURSIVE WriteSequenceItems(_, _)
WriteSequenceItems(r, items) ==
    [k \in 1..Len(items) |->
        CASE items[k].k = "Event" -> WriteEvent(r, items[k].id)
          [] items[k].k = "Tuplet" ->
                IF r.tuplets[items[k].id].ratio = NoneRatio
                THEN [status |-> "AttributeError"]
                ELSE [status |-> "ok", kind |-> "tuplet",
                      content |-> WriteSequenceItems(r, r.tuplets[items[k].id].items)]
          [] OTHER -> [status |-> "ok", kind |-> "none"]]

\* the first exception among what was written for a list of items, else "ok"
RECURSIVE WrittenStatus(_, _)
WrittenStatus(content, i) ==
    IF i > Len(content) THEN "ok"
    ELSE IF content[i].status # "ok" THEN content[i].status
    ELSE IF content[i].kind = "tuplet" /\ WrittenStatus(content[i].content, 1) # "ok"
    THEN WrittenStatus(content[i].content, 1)
    ELSE WrittenStatus(content, i + 1)

\* MNXCommonWriter.write_bar_part: it reads bar_part.directions, which BarPart
\* does not define, before it writes the sequences
WriteBarPart(r, bp) ==
    IF "directions" \notin DOMAIN bp THEN [status |-> "AttributeError"]
    ELSE IF \E s \in 1..Len(bp.sequences) :
               WrittenStatus(WriteSequenceItems(r, r.seqs[bp.sequences[s]].items), 1) # "ok"
    THEN [status |-> "AttributeError"]
    ELSE [status |-> "ok",
          sequences |-> [s \in 1..Len(bp.sequences) |->
                           [content |-> WriteSequenceItems(r, r.seqs[bp.sequences[s]].items)]]]

\* MNXCommonWriter.get_measure_header: "ok" or the exception raised.
\* microformat_timesig takes the list the reader stores
GetMeasureHeader(r, b) ==
    IF r.bars[b].timesig # <<>> THEN TimesigChanged(r, b).status ELSE "ok"

\* MNXCommonWriter.write_parts from bar b of part p on: "ok" or the exception
\* that leaves it
RECURSIVE WriteParts(_, _, _)
WriteParts(r, p, b) ==
    IF p > Len(r.score_parts) THEN "ok"
    ELSE IF b > Len(r.bars) THEN WriteParts(r, p + 1, 1)
    ELSE IF r.score_parts[p].part_id \notin DOMAIN r.bars[b].bar_parts THEN "KeyError"
    ELSE IF WriteBarPart(r, r.bars[b].bar_parts[r.score_parts[p].part_id]).status # "ok"
    THEN WriteBarPart(r, r.bars[b].bar_parts[r.score_parts[p].part_id]).status
    ELSE WriteParts(r, p, b + 1)

\* MNXCommonWriter.get_filedata: the exception that leaves it, or the document
\* that is serialised
GetFiledataCommon(r) ==
    IF \E b \in 1..Len(r.bars) : GetMeasureHeader(r, b) # "ok"
    THEN [status |-> "AttributeError"]
    ELSE IF WriteParts(r, 1, 1) # "ok" THEN [status |-> WriteParts(r, 1, 1)]
    ELSE [status |-> "ok",
          parts |-> [p \in 1..Len(r.score_parts) |->
                       [measures |-> [b \in 1..Len(r.bars) |->
                          WriteBarPart(r, r.bars[b].bar_parts[r.score_parts[p].part_id])]]]]

\* mnx_common.put_score(score) on the Score that read() has returned
PutMnxCommonScore ==
    /\ pc = "done"
    /\ pc' = "emitted"
    /\ imp' = [imp EXCEPT !.out = IF GetFiledataCommon(Reader).status = "ok" THEN "document"
                                  ELSE GetFiledataCommon(Reader).status]
    /\ last' = Did("mnx_common.put_score")
    /\ prev' = Tables
    /\ UNCHANGED <<status, score_parts, bars, bar_part, part_idx, position, part_divisions,
                   open_ties, current_beams, open_beams, open_tuplets, current_tuplets,
                   open_slurs, complete_slurs, current_grace_note_group, next_event_id,
                   next_note_id, current_octave_shift, complete_octave_shifts, notes,
                   events, seqs, tuplets, graces, beams, slurs, nelems, beam_loop>>

RestEl == [tag |-> "rest"]

EmitElements ==
    {TieNote("D", <<"start">>), TieNote("D", <<"stop">>),
     NoteEl(<<PitchEl("C", 4), TypeEl("quarter")>>),
     NoteEl(<<RestEl, TypeEl("quarter")>>),
     NoteEl(<<RestEl, TypeEl("eighth"), BeamEl(1, "begin")>>),
     NoteEl(<<RestEl, DurationEl(TInt(3))>>),
     NoteEl(<<[tag |-> "grace"], RestEl, DurationEl(TInt(3))>>),
     NoteEl(<<RestEl, DurationEl(TInt(3)),
              [TimeModificationEl(3, 2) EXCEPT !.normal_type = "eighth"],
              Notations(<<TupletEl("start", "1"), TupletEl("stop", "1")>>)>>),
     Attributes(<<DivisionsEl(TInt(2))>>)}

NextEmit ==
    \/ ParsePartList({PartList(1)})
    \/ ReadChild(EmitElements)
    \/ HandleBeams
    \/ Measures
    \/ PutMnxScore
    \/ PutMnxCommonScore

SpecEmit == InitReader /\ [][NextEmit]_vars

\* the Score holds a tie: a note that the reader has linked to a later note of
\* its pitch, on reading a tied-stop on the later one
TieRead(n1, n2) ==
    /\ n1 # n2
    /\ notes[n1].pitch # NonePitch /\ notes[n1].pitch = notes[n2].pitch
    /\ notes[n1].tie_end_note # 0
    /\ notes[n1].tie_end_note = notes[n2].note_id

\* C11: when a tied-start note and a later tied-stop note of equal pitch have
\* been read and the Score is emitted as MNX/JSON, the emission succeeds, the
\* first note is written with tie.target equal to the second note's id, and
\* the second note is written with that id
C11_TieEmission ==
    (pc = "emitted" /\ last.op = "mnx.put_score") =>
        \A n1, n2 \in 1..Len(notes) :
            TieRead(n1, n2) =>
                /\ imp.out = "document"
                /\ EncodeNote(Reader, Ref("Note", n1)).tie.target = notes[n2].note_id
                /\ EncodeNote(Reader, Ref("Note", n2)).id = notes[n2].note_id

\* the document read was one part with one measure whose only child is a
\* <note> with a pitch and a <type> and nothing else, and the Score has been
\* handed to mnx.put_score
PlainNoteEmitted ==
    /\ pc = "emitted" /\ last.op = "mnx.put_score"
    /\ Len(score_parts) = 1 /\ Len(bars) = 1 /\ nelems = 1
    /\ Len(notes) = 1 /\ notes[1].pitch = Pitch("C", 4, 0)
    /\ Len(events) = 1 /\ events[1].event_items = <<Ref("Note", 1)>>
    /\ events[1].duration = RhythmicDuration(Fraction(1, 4), 0)

\* C12: a document of one part, one measure and one voice with a single
\* pitched note of a known note type, without ties, slurs, beams or markings,
\* is emitted as MNX/JSON with success: one part measure with one sequence
\* whose content is one event with the base name of the note type and a notes
\* list with the note's step and octave, without an id and without slurs
C12_PlainNoteEmission ==
    PlainNoteEmitted =>
        /\ imp.out = "document"
        /\ Len(GetFiledata(Reader).parts) = 1
        /\ Len(GetFiledata(Reader).parts[1].measures) = 1
        /\ Len(GetFiledata(Reader).parts[1].measures[1].sequences) = 1
        /\ Len(GetFiledata(Reader).parts[1].measures[1].sequences[1].content) = 1
        /\ LET event == GetFiledata(Reader).parts[1].measures[1].sequences[1].content[1]
           IN  /\ event.duration.base = "quarter"
               /\ event.id = 0 /\ event.slurs = <<>>
               /\ Len(event.notes) = 1
               /\ event.notes[1].pitch.step = "C" /\ event.notes[1].pitch.octave = 4
               /\ event.notes[1].id = 0

\* the events written in a list of content, those inside tuplets and grace note
\* groups too
RECURSIVE ContentEvents(_, _)
ContentEvents(content, i) ==
    IF i > Len(content) THEN {}
    ELSE (CASE content[i].kind = "event" -> {content[i]}
            [] content[i].kind \in {"tuplet", "grace"} -> ContentEvents(content[i].content, 1)
            [] OTHER -> {})
         \cup ContentEvents(content, i + 1)

\* the events written in a document
DocEvents(d) ==
    UNION {UNION {UNION {ContentEvents(d.parts[p].measures[b].sequences[s].content, 1) :
                            s \in 1..Len(d.parts[p].measures[b].sequences)} :
                     b \in 1..Len(d.parts[p].measures)} :
              p \in 1..Len(d.parts)}

\* what the writer that ran has returned
Emitted ==
    IF last.op = "mnx.put_score" THEN GetFiledata(Reader) ELSE GetFiledataCommon(Reader)

NoCanonicalName(e) == events[e].duration.frac \notin NOTE_VALUE_BASES

\* C14: when the Score handed to a writer holds an event whose duration
\* fraction has no canonical note-value name, the emission ends with an
\* exception: nothing is returned, neither a document with a substituted note
\* value nor a part of a document
C14_AllOrNothing ==
    (pc = "emitted" /\ \E e \in 1..Len(events) : NoCanonicalName(e)) =>
        imp.out \notin {"document", "none"}

\* a Score of rests, one of them three eighths long, is handed to the MNX/JSON
\* writer, which raises ValueError at the note value
C14_Witness ==
    /\ pc = "emitted" /\ last.op = "mnx.put_score"
    /\ \E e \in 1..Len(events) : NoCanonicalName(e) /\ IsRest(Reader, e)
    /\ \E e \in 1..Len(events) : ~NoCanonicalName(e)
    /\ imp.out = "ValueError"

\* ----------------------------------------------- key and time signatures
TimeEl(beats, beat_type) ==
    [tag |-> "time", beats |-> TInt(beats), beat_type |-> TInt(beat_type),
     symbol |-> "missing"]

SignatureElements ==
    {Attributes(<<KeyEl(TInt(2))>>), Attributes(<<KeyEl(TInt(0))>>),
     Attributes(<<TimeEl(4, 4)>>), Attributes(<<TimeEl(3, 4)>>),
     NoteEl(<<RestEl, TypeEl("quarter")>>)}

NextSignature ==
    \/ ParsePartList({PartList(1)})
    \/ ReadChild(SignatureElements)
    \/ HandleBeams
    \/ Measures
    \/ PutMnxScore
    \/ PutMnxCommonScore

SpecSignature == InitReader /\ [][NextSignature]_vars

\* the bars at or before place b that define a key
KeyDefinedUpTo(b) == {j \in 1..b : bars[j].keysig.some}

\* the effective key of the bar at place b: the fifths of the nearest bar at or
\* before it that defines a key, 0 when none does
EffectiveKey(b) ==
    IF KeyDefinedUpTo(b) = {} THEN 0
    ELSE bars[CHOOSE j \in KeyDefinedUpTo(b) : \A k \in KeyDefinedUpTo(b) : k <= j].keysig.fifths

\* C16: active_keysig of a bar is its effective key; keysig_changed of bar 0 is
\* true exactly when bar 0 defines a key with fifths other than 0, and
\* keysig_changed of a later bar is true exactly when its effective key differs
\* from the effective key of the bar before it
C16_KeyChangeFlag ==
    \A b \in 1..Len(bars) :
        /\ ActiveKeysig(Reader, b) = EffectiveKey(b)
        /\ KeysigChanged(Reader, b) =
              IF b = 1 THEN bars[1].keysig.some /\ bars[1].keysig.fifths # 0
              ELSE EffectiveKey(b) # EffectiveKey(b - 1)

\* a Score of two bars is emitted as MNX/JSON: bar 0 defines two sharps and is
\* written with its key, bar 1 defines no key, has the key of bar 0 in effect
\* and is written without one
C16_Witness ==
    /\ pc = "emitted" /\ last.op = "mnx.put_score" /\ imp.out = "document"
    /\ Len(bars) = 2
    /\ bars[1].keysig.some /\ bars[1].keysig.fifths = 2 /\ ~bars[2].keysig.some
    /\ ActiveKeysig(Reader, 2) = 2 /\ ~KeysigChanged(Reader, 2)
    /\ GetFiledata(Reader).global[1].key /\ ~GetFiledata(Reader).global[2].key

\* the bars at or before place b that define a time signature
TimeDefinedUpTo(b) == {j \in 1..b : bars[j].timesig # <<>>}

\* the effective time signature of the bar at place b: its own, or that of the
\* nearest earlier bar that defines one; <<>> when none does
EffectiveTime(b) ==
    IF TimeDefinedUpTo(b) = {} THEN <<>>
    ELSE bars[CHOOSE j \in TimeDefinedUpTo(b) : \A k \in TimeDefinedUpTo(b) : k <= j].timesig

\* C17: for every bar after the first whose effective time signature equals
\* that of the bar before it, timesig_changed reports that nothing changed
C17_TimesigChangeFlag ==
    \A b \in 2..Len(bars) :
        EffectiveTime(b) = EffectiveTime(b - 1) =>
            /\ TimesigChanged(Reader, b).status = "ok"
            /\ ~TimesigChanged(Reader, b).val

\* ------------------------------------------------- the scope of open ties
\* the id of the part in whose <part> element the note n was read: the part
\* being read when n's sequence is in its BarPart, else the part under whose id
\* a bar holds the BarPart with n's sequence
PartOfNote(n) ==
    IF InSeq(notes[n].sequence, bar_part.sequences) THEN Part.part_id
    ELSE CHOOSE id \in {score_parts[p].part_id : p \in 1..Len(score_parts)} :
            \E b \in 1..Len(bars) :
                /\ id \in DOMAIN bars[b].bar_parts
                /\ InSeq(notes[n].sequence, bars[b].bar_parts[id].sequences)

\* C18: a tied-stop takes its tie start from the ties open in the same part: a
\* note that the last step has linked to the tied-stop note was read in the
\* part the tied-stop is read in
C18_TieScope ==
    TiedStopRead =>
        \A n \in 1..Len(prev.notes) :
            notes[n].tie_end_note # prev.notes[n].tie_end_note =>
                PartOfNote(n) = Part.part_id

\* ------------------------------------------------------ ids and voices
IdElements ==
    {NoteEl(<<PitchEl("C", 4), TypeEl("quarter")>>),
     NoteEl(<<RestEl, TypeEl("quarter")>>),
     NoteEl(<<[tag |-> "grace"], PitchEl("B", 4), VoiceEl("1"), TypeEl("eighth")>>),
     NoteEl(<<ChordEl, PitchEl("E", 4), TypeEl("quarter")>>),
     TupletNote("D", "1", <<TupletEl("start", "1"), TupletEl("stop", "1")>>)}

NextIds ==
    \/ ParsePartList({PartList(2)})
    \/ ReadChild(IdElements)
    \/ HandleBeams
    \/ Measures

SpecIds == InitReader /\ [][NextIds]_vars

\* the note n is an event item of the event e
HoldsNote(e, n) ==
    \E k \in 1..Len(events[e].event_items) : events[e].event_items[k] = Ref("Note", n)

\* C19: in a Score that read() returns no two events, grace events and events
\* inside tuplets among them, have the same event id, and no two notes held by
\* events have the same note id, over all bars, parts and voices
C19_UniqueIds ==
    pc = "done" =>
        /\ \A e1, e2 \in 1..Len(events) :
              e1 # e2 => events[e1].event_id # events[e2].event_id
        /\ \A n1, n2 \in 1..Len(notes) :
              (/\ n1 # n2
               /\ \E e \in 1..Len(events) : HoldsNote(e, n1)
               /\ \E e \in 1..Len(events) : HoldsNote(e, n2)) =>
                  notes[n1].note_id # notes[n2].note_id

\* a Score is returned with three events that hold a note each, one in a grace
\* note group and one in a tuplet
C19_Witness ==
    /\ pc = "done" /\ Len(events) = 3
    /\ Len(graces) >= 1 /\ Len(tuplets) >= 1 /\ tuplets[1].items # <<>>
    /\ \A e \in 1..Len(events) : \E n \in 1..Len(notes) : HoldsNote(e, n)

\* ---------------------------------------------------------------- voices
VoiceElements ==
    {NoteEl(<<PitchEl("C", 4), TypeEl("quarter")>>),
     NoteEl(<<PitchEl("C", 4), VoiceEl("2"), TypeEl("quarter")>>),
     NoteEl(<<PitchEl("E", 4), VoiceEl("1"), TypeEl("quarter")>>),
     NoteEl(<<[tag |-> "grace"], PitchEl("B", 4), VoiceEl("1"), TypeEl("eighth")>>),
     NoteEl(<<[tag |-> "grace"], PitchEl("B", 4), VoiceEl("2"), TypeEl("eighth")>>),
     NoteEl(<<ChordEl, PitchEl("E", 4), VoiceEl("2"), TypeEl("quarter")>>)}

NextVoice ==
    \/ ParsePartList({PartList(1)})
    \/ ReadChild(VoiceElements)
    \/ HandleBeams
    \/ Measures

SpecVoice == InitReader /\ [][NextVoice]_vars

\* the voice id of a <note>: the text of its last <voice>, else the empty string
RECURSIVE VoiceIdFrom(_, _)
VoiceIdFrom(children, i) ==
    IF i = 0 THEN ""
    ELSE IF children[i].tag = "voice" THEN children[i].text
    ELSE VoiceIdFrom(children, i - 1)

\* the events that a sequence's items hold, directly or in a grace note group
SequenceEvents(s) ==
    {seqs[s].items[k].id : k \in {j \in 1..Len(seqs[s].items) : seqs[s].items[j].k = "Event"}}
    \cup UNION {{graces[seqs[s].items[k].id].events[j] :
                    j \in 1..Len(graces[seqs[s].items[k].id].events)} :
                k \in {j \in 1..Len(seqs[s].items) :
                          seqs[s].items[j].k = "GraceNoteGroup"}}

\* the first note of the heap that was read into the sequence s
FirstNoteOf(s) ==
    CHOOSE n \in 1..Len(notes) :
        notes[n].sequence = s /\ \A m \in 1..Len(notes) : notes[m].sequence = s => n <= m

\* C20: after a <note> is read, the BarPart holds at most one Sequence per
\* voice id, its sequences are in the order in which their voices were first
\* met, and the event that holds the note read is in the sequence of the note's
\* voice id
C20_VoiceUniqueness ==
    (last.op = "child" /\ last.el.tag = "note" /\ status = "ok") =>
        /\ \A i, j \in 1..Len(bar_part.sequences) :
              i # j => seqs[bar_part.sequences[i]].sequence_id
                          # seqs[bar_part.sequences[j]].sequence_id
        /\ \A i, j \in 1..Len(bar_part.sequences) :
              i < j => FirstNoteOf(bar_part.sequences[i]) < FirstNoteOf(bar_part.sequences[j])
        /\ \E i \in 1..Len(bar_part.sequences) :
              /\ seqs[bar_part.sequences[i]].sequence_id
                    = VoiceIdFrom(last.el.children, Len(last.el.children))
              /\ \E e \in SequenceEvents(bar_part.sequences[i]) :
                    HoldsNote(e, last.note)

\* ------------------------------------------- two conversions of one input
\* A document of one part: for each <measure>, the children of its <part>
TwiceElements ==
    {TieNote("D", <<"start">>), TieNote("D", <<"stop">>),
     NoteEl(<<PitchEl("C", 4), TypeEl("quarter")>>),
     NoteEl(<<RestEl, TypeEl("quarter")>>),
     NoteEl(<<RestEl, TypeEl("eighth"), BeamEl(1, "begin")>>),
     NoteEl(<<RestEl, DurationEl(TInt(3))>>)}
TwiceChildLists == {<<>>} \cup {<<el>> : el \in TwiceElements}
TwiceDocuments == UNION {[1..n -> TwiceChildLists] : n \in 1..MaxMeasures}

\* the number of children in the measures of document d before measure b
RECURSIVE ChildrenBefore(_, _)
ChildrenBefore(d, b) ==
    IF b <= 1 THEN 0 ELSE ChildrenBefore(d, b - 1) + Len(d[b - 1])

\* the reader is in a <part> of the input that has a child left, and that child
MoreChildren ==
    nelems - ChildrenBefore(imp.input, Len(bars)) < Len(imp.input[Len(bars)])
NextChild ==
    imp.input[Len(bars)][nelems - ChildrenBefore(imp.input, Len(bars)) + 1]

\* MusicXMLReader(xml) after the conversion that left the reader `old`: every
\* field is assigned in __init__, and nothing is taken from `old`
NewReaderKeepingIds(old) ==
    [status |-> "ok", score_parts |-> <<>>, bars |-> <<>>, bar_part |-> NoBarPart,
     position |-> 0, part_divisions |-> <<>>, open_ties |-> <<>>,
     current_beams |-> <<>>, open_beams |-> <<>>, open_tuplets |-> <<>>,
     current_tuplets |-> <<>>, open_slurs |-> <<>>, complete_slurs |-> <<>>,
     current_grace_note_group |-> 0,
     next_event_id |-> old.next_event_id, next_note_id |-> old.next_note_id,
     current_octave_shift |-> NoShift, complete_octave_shifts |-> <<>>,
     notes |-> <<>>, events |-> <<>>, seqs |-> <<>>, tuplets |-> <<>>,
     graces |-> <<>>, beams |-> <<>>, slurs |-> <<>>]
NewReader(old) ==
    [status |-> "ok", score_parts |-> <<>>, bars |-> <<>>, bar_part |-> NoBarPart,
     position |-> 0, part_divisions |-> <<>>, open_ties |-> <<>>,
     current_beams |-> <<>>, open_beams |-> <<>>, open_tuplets |-> <<>>,
     current_tuplets |-> <<>>, open_slurs |-> <<>>, complete_slurs |-> <<>>,
     current_grace_note_group |-> 0, next_event_id |-> 1, next_note_id |-> 1,
     current_octave_shift |-> NoShift, complete_octave_shifts |-> <<>>,
     notes |-> <<>>, events |-> <<>>, seqs |-> <<>>, tuplets |-> <<>>,
     graces |-> <<>>, beams |-> <<>>, slurs |-> <<>>]

\* read_musicxml on a one-part <score-timewise> document out of TwiceDocuments;
\* run counts the conversions of it, trace holds the states the running
\* conversion has passed through and first those of the conversion before
InitTwice ==
    \E d \in TwiceDocuments :
        Constructed("part_list",
            [entry |-> "get_score", file |-> TimewiseFile, reader |-> TRUE,
             doc |-> [free |-> FALSE, measures |-> [b \in 1..Len(d) |-> 1]],
             out |-> "none", input |-> d, run |-> 1, trace |-> <<>>, first |-> <<>>])

\* the state of a conversion: where the reader is, its fields and its Score,
\* and what the writer has given
Snapshot ==
    [pc |-> pc, part_idx |-> part_idx, nelems |-> nelems, out |-> imp.out,
     reader |-> Reader]
Observed == imp.trace # <<>> /\ imp.trace[Len(imp.trace)] = Snapshot

\* the state the conversion has come to is added to its trace
Observe ==
    /\ ~Observed
    /\ imp' = [imp EXCEPT !.trace = Append(@, Snapshot)]
    /\ UNCHANGED <<pc, status, score_parts, bars, bar_part, part_idx, position,
                   part_divisions, open_ties, current_beams, open_beams, open_tuplets,
                   current_tuplets, open_slurs, complete_slurs, current_grace_note_group,
                   next_event_id, next_note_id, current_octave_shift,
                   complete_octave_shifts, notes, events, seqs, tuplets, graces, beams,
                   slurs, nelems, last, prev, beam_loop>>

\* parse_measure_part, lines 286-299, on the next child the input has
ReadNextChild == Observed /\ pc = "children" /\ MoreChildren /\ ReadChild({NextChild})

\* parse_measure_part, line 300, when the input has no more children
EndOfChildren == Observed /\ pc = "children" /\ ~MoreChildren /\ EndChildren

\* the other steps of read() and the writer, on the input
TwiceStep ==
    /\ Observed
    /\ \/ ParsePartList({PartList(1)})
       \/ BeginMeasure
       \/ BeginMeasurePart
       \/ HandleSlurs
       \/ HandleTuplets
       \/ HandleBeams
       \/ HandleOctaveShifts
       \/ EndMeasure
       \/ Return
       \/ PutMnxScore

\* the same process converts the same input once more: read_musicxml makes a
\* new MusicXMLReader, lines 192-194
ConvertAgain ==
    /\ Observed /\ imp.run = 1 /\ pc \in {"emitted", "failed"}
    /\ Install(NewReader(Reader))
    /\ pc' = "part_list"
    /\ part_idx' = 0 /\ nelems' = 0 /\ beam_loop' = NoBeamLoop
    /\ last' = Did("init")
    /\ prev' = [open_ties |-> <<>>, open_slurs |-> <<>>, complete_slurs |-> <<>>,
                open_beams |-> <<>>, current_tuplets |-> <<>>, notes |-> <<>>,
                events |-> <<>>, seqs |-> <<>>, slurs |-> <<>>, graces |-> <<>>,
               current_grace_note_group |-> 0, current_octave_shift |-> NoShift,
               complete_octave_shifts |-> <<>>]
    /\ imp' = [imp EXCEPT !.run = 2, !.first = imp.trace, !.trace = <<>>,
                          !.out = "none"]

NextTwice ==
    \/ Observe
    \/ ReadNextChild
    \/ EndOfChildren
    \/ TwiceStep
    \/ ConvertAgain

SpecTwice == InitTwice /\ [][NextTwice]_vars

SlurPairElements ==
    {NoteEl(<<PitchEl("C", 4), TypeEl("quarter")>>),
     SlurNote("D", <<SlurEl("start", TInt(1))>>),
     SlurNote("E", <<SlurEl("stop", TInt(1))>>),
     SlurNote("D", <<SlurEl("start", TInt(1)), SlurEl("start", TInt(2))>>),
     SlurNote("E", <<SlurEl("stop", TInt(1)), SlurEl("stop", TInt(2))>>),
     SlurNote("F", <<[SlurEl("start", TInt(1)) EXCEPT !.default_x = "negative"],
                     SlurEl("stop", TInt(1))>>)}

NextSlurPair ==
    \/ ParsePartList({PartList(1)})
    \/ ReadChild(SlurPairElements)
    \/ HandleBeams
    \/ Measures

SpecSlurPair == InitReader /\ [][NextSlurPair]_vars

\* the event that holds note n; 0 when no event does
EventHolding(n) ==
    IF \E e \in 1..Len(events) : InSeq(Ref("Note", n), events[e].event_items)
    THEN CHOOSE e \in 1..Len(events) : InSeq(Ref("Note", n), events[e].event_items)
    ELSE 0

\* the last step was the slur finalization of a measure-part, and i is one of
\* the (start, stop) pairs that were complete before it
Finalized(i) == last.op = "slurs" /\ i \in 1..Len(prev.complete_slurs)

\* C21: at the finalization of a measure-part every completed slur pair is
\* attached to its start event: when both boundary notes are in one event, as
\* an incomplete slur, incoming for a negative default-x on the start marker
\* and outgoing otherwise; when they are in two events, as a complete slur that
\* carries the end event's id, the end event being flagged referenced.
C21_SlurResolution ==
    \A i \in 1..Len(prev.complete_slurs) :
        Finalized(i) =>
            LET sd == prev.complete_slurs[i]
                s == EventHolding(sd.first_note)
                e == EventHolding(sd.last_note)
            IN  /\ status = "ok"
                /\ s # 0 /\ e # 0
                /\ InSeq(sd.slur, events[s].slurs)
                /\ IF s = e
                   THEN /\ slurs[sd.slur].is_incomplete = "True"
                        /\ slurs[sd.slur].incomplete_type =
                              IF sd.start_default_x = "negative"
                              THEN "INCOMPLETE_TYPE_INCOMING"
                              ELSE "INCOMPLETE_TYPE_OUTGOING"
                   ELSE /\ slurs[sd.slur].is_incomplete = "False"
                        /\ slurs[sd.slur].end_event_id = events[e].event_id
                        /\ events[e].is_referenced

\* another pair of the same finalization, of a distinct slur, lies between the
\* same two events as pair i
SharesEvents(i) ==
    \E j \in 1..Len(prev.complete_slurs) :
        /\ prev.complete_slurs[j].slur # prev.complete_slurs[i].slur
        /\ EventHolding(prev.complete_slurs[j].first_note)
              = EventHolding(prev.complete_slurs[i].first_note)
        /\ EventHolding(prev.complete_slurs[j].last_note)
              = EventHolding(prev.complete_slurs[i].last_note)

\* C22: a complete slur gets the ids of its start note and end note, and both
\* notes are flagged referenced, exactly when another, distinct slur of the
\* same finalization lies between the same two events; then both slurs get
\* them. The slurs of earlier finalizations are left as they were.
C22_NoteEndpoints ==
    (last.op = "slurs" /\ status = "ok") =>
        /\ \A i \in 1..Len(prev.complete_slurs) :
              LET sd == prev.complete_slurs[i]
              IN  slurs[sd.slur].is_incomplete = "False" =>
                     IF SharesEvents(i)
                     THEN /\ slurs[sd.slur].start_note = notes[sd.first_note].note_id
                          /\ slurs[sd.slur].end_note = notes[sd.last_note].note_id
                          /\ notes[sd.first_note].is_referenced
                          /\ notes[sd.last_note].is_referenced
                     ELSE /\ slurs[sd.slur].start_note = 0
                          /\ slurs[sd.slur].end_note = 0
        /\ \A k \in 1..Len(slurs) :
              (\A i \in 1..Len(prev.complete_slurs) : prev.complete_slurs[i].slur # k)
                  => slurs[k] = prev.slurs[k]

\* two slurs between the same two events have been finalized together, and
\* both carry the ids of the two notes
C22_Witness ==
    /\ last.op = "slurs" /\ status = "ok" /\ Len(prev.complete_slurs) = 2
    /\ \A i \in 1..Len(prev.complete_slurs) :
          /\ SharesEvents(i)
          /\ slurs[prev.complete_slurs[i].slur].is_incomplete = "False"
          /\ slurs[prev.complete_slurs[i].slur].start_note # 0
          /\ slurs[prev.complete_slurs[i].slur].end_note # 0

\* the member events are a run of neighbouring items of the sequence, in order
Contiguous(event_list, items) ==
    \E k \in 0..Len(items) :
        /\ k + Len(event_list) <= Len(items)
        /\ \A j \in 1..Len(event_list) : items[k + j] = Ref("Event", event_list[j])

\* the last step was the tuplet folding of a measure-part with one closed tuplet
TupletFinalized == last.op = "tuplets" /\ Len(prev.current_tuplets) = 1

\* C23: when the events accumulated for a closed tuplet are not a run of
\* neighbouring items of the owning sequence, the folding raises an error and
\* makes no Tuplet; and a Tuplet that the folding makes wraps only items that
\* were accumulated as members.
C23_NonContiguousTuplet ==
    TupletFinalized =>
        /\ ~Contiguous(TheTuplet.event_list, TupletItemsBefore)
              => (status # "ok" /\ tuplets = <<>>)
        /\ \A t \in 1..Len(tuplets) : \A i \in 1..Len(tuplets[t].items) :
              /\ tuplets[t].items[i].k = "Event"
              /\ InSeq(tuplets[t].items[i].id, TheTuplet.event_list)

\* ----------------------------------------------------------- tuplet ratios
RatioNote(step, actual, normal, normal_type, tuplet_els) ==
    NoteEl(<<PitchEl(step, 4), TypeEl("eighth"),
             [TimeModificationEl(actual, normal) EXCEPT !.normal_type = normal_type],
             Notations(tuplet_els)>>)

RatioElements ==
    {NoteEl(<<PitchEl("C", 4), TypeEl("eighth")>>),
     RatioNote("D", 3, 2, "missing", <<TupletEl("start", "1")>>),
     RatioNote("E", 3, 2, "missing", <<TupletEl("stop", "1")>>),
     RatioNote("F", 5, 4, "quarter", <<TupletEl("stop", "1")>>),
     RatioNote("G", 3, 2, "breve", <<TupletEl("stop", "1")>>)}

NextRatio ==
    \/ ParsePartList({PartList(1)})
    \/ ReadChild(RatioElements)
    \/ HandleBeams
    \/ Measures

SpecRatio == InitReader /\ [][NextRatio]_vars

\* the child of the element that has the tag
ChildWith(el, tag) == CHOOSE c \in {el.children[i] : i \in 1..Len(el.children)} : c.tag = tag

\* the ratio that the <time-modification> of the <note> stands for: with
\* actual-notes a, normal-notes n and the fraction p/q of the normal-type, or of
\* the note's <type> when there is no normal-type, outer n*p over q and inner
\* a*p over q
RatioOf(note_el) ==
    LET tm == ChildWith(note_el, "time-modification")
        pq == RHYTHM_TYPES[IF tm.normal_type = "missing" THEN ChildWith(note_el, "type").text
                           ELSE tm.normal_type]
    IN  [outer_numerator |-> tm.normal.val * pq[1], outer_denominator |-> pq[2],
         inner_numerator |-> tm.actual.val * pq[1], inner_denominator |-> pq[2]]

\* C24: the ratio of a time-modification with actual-notes a, normal-notes n
\* and normal type p/q (the note's own type without a normal-type) has inner
\* a*p over q and outer n*p over q, not reduced; a tuplet closed by a note gets
\* the ratio parsed on that note, and the Tuplet folded for it carries it.
C24_TupletRatio ==
    /\ (last.op = "child" /\ status = "ok"
           /\ Len(current_tuplets) = Len(prev.current_tuplets) + 1)
          => current_tuplets[Len(current_tuplets)].ratio = RatioOf(last.el)
    /\ (last.op = "tuplets" /\ status = "ok")
          => /\ Len(tuplets) >= Len(prev.current_tuplets)
             /\ \A i \in 1..Len(prev.current_tuplets) :
                   tuplets[Len(tuplets) - Len(prev.current_tuplets) + i].ratio
                      = prev.current_tuplets[i].ratio

\* a Tuplet has been folded with inner 3/8 and outer 2/8, another with inner
\* 5/4 and outer 4/4 from a quarter normal-type on the stop note
C24_Witness ==
    /\ last.op = "tuplets" /\ status = "ok" /\ Len(prev.current_tuplets) = 1
    /\ tuplets[Len(tuplets)].ratio \in
          {[outer_numerator |-> 2, outer_denominator |-> 8,
            inner_numerator |-> 3, inner_denominator |-> 8],
           [outer_numerator |-> 4, outer_denominator |-> 4,
            inner_numerator |-> 5, inner_denominator |-> 4]}

\* ------------------------------------------------- beams across measures
\* the entry of current_beams whose marker the last step took
MarkerEntry ==
    IF status # "ok" \/ beam_loop.j > 1 THEN current_beams[beam_loop.i]
    ELSE current_beams[beam_loop.i - 1]

\* the bar whose BarParts hold the sequence of the event; 0 when none does
BarOfEvent(e) ==
    LET holds(b) == \E p \in DOMAIN bars[b].bar_parts :
                        InSeq(events[e].parent.id, bars[b].bar_parts[p].sequences)
    IN  IF \E b \in 1..Len(bars) : holds(b)
        THEN CHOOSE b \in 1..Len(bars) : holds(b) ELSE 0

\* the last step took a `continue` or `end` marker of a number under which the
\* part had a beam open
OpenBeamMarked ==
    /\ last.op = "beam" /\ last.el.text \in {"continue", "end"}
    /\ last.el.number \in DOMAIN prev.open_beams[Part.part_id]

\* C25: a beam that is open in a part stays in the part's open-beam table over
\* every step that takes no beam marker, the end of the measure-part and the
\* start of the next measure included; a `continue` or `end` marker of its
\* number, in whichever later measure of the part, appends its event to that
\* Beam; and a marker taken for one part leaves the open beams of the other
\* parts as they were.
C25_BeamsPersist ==
    /\ last.op # "beam" =>
          \A p \in DOMAIN prev.open_beams :
              p \in DOMAIN open_beams /\ open_beams[p] = prev.open_beams[p]
    /\ last.op = "beam" =>
          \A p \in DOMAIN prev.open_beams \ {Part.part_id} :
              p \in DOMAIN open_beams /\ open_beams[p] = prev.open_beams[p]
    /\ (OpenBeamMarked /\ status = "ok") =>
          LET b == prev.open_beams[Part.part_id][last.el.number]
          IN  beams[b].events[Len(beams[b].events)] = MarkerEntry.event

\* an `end` marker read in the second measure has put its event on a beam that
\* was begun in the first measure, while the other part had a beam open
C25_Witness ==
    /\ OpenBeamMarked /\ status = "ok" /\ last.el.text = "end"
    /\ LET b == prev.open_beams[Part.part_id][last.el.number]
       IN  /\ BarOfEvent(beams[b].events[1]) = 1
           /\ BarOfEvent(MarkerEntry.event) = 2
    /\ \E p \in DOMAIN open_beams \ {Part.part_id} : DOMAIN open_beams[p] # {}

\* -------------------------------------------------- the end of a beam
BeamEndElements ==
    {BeamNote(<<BeamEl(1, "begin")>>),
     BeamNote(<<BeamEl(2, "begin"), BeamEl(1, "begin")>>),
     BeamNote(<<BeamEl(2, "backward hook"), BeamEl(1, "end")>>),
     BeamNote(<<BeamEl(2, "begin"), BeamEl(1, "end")>>),
     BeamNote(<<BeamEl(2, "end"), BeamEl(1, "end")>>),
     BeamNote(<<BeamEl(1, "continue")>>)}

NextBeamEnd ==
    \/ ParsePartList({PartList(1)})
    \/ ReadChild(BeamEndElements)
    \/ BeamsEnter
    \/ BeamsMarker
    \/ BeamsExit
    \/ Measures

SpecBeamEnd == InitReader /\ [][NextBeamEnd]_vars

\* the markers of the entry, as the <beam> children of its <note> gave them
MarkersOf(entry) == {entry.beam_data[k] : k \in 1..Len(entry.beam_data)}

\* the last step took the last marker of its event
EventDone == last.op = "beam" /\ status = "ok" /\ beam_loop.j = 1

\* C26: the markers of an event are taken in ascending order of their numbers.
\* A beam whose `end` marker has been taken is still in the part's open-beam
\* table while markers of the same event remain, so that a `begin` or a hook of
\* the next number on that event does not fail for want of its parent; once the
\* event's last marker has been taken no beam that the event ended is open.
C26_DeferredBeamEnd ==
    /\ (last.op = "beam" /\ status = "ok" /\ beam_loop.j > 1) =>
          /\ Cardinality({k \in 1..Len(MarkerEntry.beam_data) :
                              MarkerEntry.beam_data[k][1] < last.el.number})
                < beam_loop.j - 1
          /\ Cardinality({k \in 1..Len(MarkerEntry.beam_data) :
                              MarkerEntry.beam_data[k][1] > last.el.number})
                <= Len(MarkerEntry.beam_data) - (beam_loop.j - 1)
          /\ \A k \in 1..Len(beam_loop.pending_ends) :
                beam_loop.pending_ends[k] \in DOMAIN open_beams[Part.part_id]
    /\ (last.op = "beam" /\ last.el.text \in {"begin", "forward hook", "backward hook"}
           /\ InSeq(last.el.number - 1, beam_loop.pending_ends))
          => status = "ok"
    /\ EventDone =>
          \A m \in MarkersOf(MarkerEntry) :
              /\ m[1] <= last.el.number
              /\ m[2] = "end" => m[1] \notin DOMAIN open_beams[Part.part_id]

\* an event with an `end` of number 1 and a backward hook of number 2 has been
\* taken: the hook hangs under the beam that the event ended, and the beam is
\* no longer open
C26_Witness ==
    /\ EventDone
    /\ MarkersOf(MarkerEntry) = {<<1, "end">>, <<2, "backward hook">>}
    /\ 1 \notin DOMAIN open_beams[Part.part_id]
    /\ \E b \in 1..Len(beams) :
          /\ beams[b].events[Len(beams[b].events)] = MarkerEntry.event
          /\ Len(beams[b].events) >= 2
          /\ \E c \in 1..Len(beams[b].children) :
                /\ beams[b].children[c].k = "BeamHook"
                /\ beams[b].children[c].id = MarkerEntry.event

\* ------------------------------------------------------ octave shifts
OctaveShiftEl(type, size) ==
    [tag |-> "direction",
     children |-> <<[tag |-> "octave-shift", type |-> type, size |-> size]>>]

ShiftElements ==
    {NoteEl(<<PitchEl("C", 4), TypeEl("quarter")>>),
     OctaveShiftEl("up", "missing"),
     OctaveShiftEl("down", "15"),
     OctaveShiftEl("stop", "missing")}

NextShift ==
    \/ ParsePartList({PartList(1)})
    \/ ReadChild(ShiftElements)
    \/ HandleBeams
    \/ Measures

SpecShift == InitReader /\ [][NextShift]_vars

\* the last step read a <direction> with an <octave-shift> of one of the types
ShiftRead(types) ==
    /\ last.op = "child" /\ last.el.tag = "direction"
    /\ last.el.children[1].type \in types

\* C27: an octave-shift `up` or `down` read while a shift is open leaves the
\* open shift as it was, with its type and the notes it has collected, and
\* raises no error.
C27_SecondShiftStart ==
    (ShiftRead({"up", "down"}) /\ prev.current_octave_shift.open) =>
        /\ status = "ok"
        /\ current_octave_shift.open
        /\ current_octave_shift.shift_type = prev.current_octave_shift.shift_type
        /\ current_octave_shift.note_list = prev.current_octave_shift.note_list

\* C28: after an octave-shift `stop` read while a shift is open no shift is
\* open, without error; a shift that had collected no note is dropped and
\* makes no completed shift; and a note read while no shift is open is not
\* collected into any shift.
C28_ShiftStop ==
    /\ (ShiftRead({"stop"}) /\ prev.current_octave_shift.open) =>
          /\ status = "ok"
          /\ ~current_octave_shift.open
          /\ prev.current_octave_shift.note_list = <<>>
                => complete_octave_shifts = prev.complete_octave_shifts
    /\ (last.op = "child" /\ last.el.tag = "note" /\ ~prev.current_octave_shift.open) =>
          /\ ~current_octave_shift.open
          /\ complete_octave_shifts = prev.complete_octave_shifts

\* the item of the sequence holds the event: it is the event, or a Tuplet
\* with the event among its items
ItemHolds(item, e) ==
    \/ item = Ref("Event", e)
    \/ item.k = "Tuplet" /\ InSeq(Ref("Event", e), tuplets[item.id].items)

\* an Ottava stands in a sequence immediately before the item that holds the
\* event of the shift's first note
OttavaBefore(shift) ==
    \E s \in 1..Len(seqs) : \E i \in 1..Len(seqs[s].items) :
        /\ i < Len(seqs[s].items)
        /\ seqs[s].items[i].k = "Ottava"
        /\ ItemHolds(seqs[s].items[i + 1], EventHolding(shift.note_list[1].id))

\* C29: the finalization of a measure-part in which an octave shift with at
\* least one note was stopped puts one Ottava immediately before the sequence
\* item that holds the shift's first note, and the conversion does not fail.
C29_OttavaPlacement ==
    (last.op = "octave_shifts" /\ prev.complete_octave_shifts # <<>>) =>
        /\ status = "ok"
        /\ \A i \in 1..Len(prev.complete_octave_shifts) :
              OttavaBefore(prev.complete_octave_shifts[i])

\* ------------------------------------------------------ grace note groups
GraceElements ==
    {NoteEl(<<[tag |-> "grace"], PitchEl("B", 4), TypeEl("eighth")>>),
     NoteEl(<<PitchEl("C", 4), TypeEl("eighth")>>),
     NoteEl(<<ChordEl, PitchEl("E", 4), TypeEl("eighth")>>),
     [tag |-> "forward", duration |-> TMissing],
     [tag |-> "backup", duration |-> TMissing]}

NextGrace ==
    \/ ParsePartList({PartList(1)})
    \/ ReadChild(GraceElements)
    \/ HandleBeams
    \/ Measures

SpecGrace == InitReader /\ [][NextGrace]_vars

\* the element has a child of the tag
HasChild(el, tag) == \E i \in 1..Len(el.children) : el.children[i].tag = tag

\* the group among G that holds event e; 0 when none does
GroupOf(e, G) ==
    IF \E g \in 1..Len(G) : InSeq(e, G[g].events)
    THEN CHOOSE g \in 1..Len(G) : InSeq(e, G[g].events) ELSE 0

\* the last step read a grace note and made its event, the newest of all
GraceRead ==
    /\ last.op = "child" /\ last.el.tag = "note" /\ status = "ok"
    /\ HasChild(last.el, "grace") /\ ~HasChild(last.el, "chord")
    /\ Len(events) = Len(prev.events) + 1

\* the newest grace event before the last step; 0 when there was none
LastGrace ==
    LET was == {e \in 1..Len(prev.events) : GroupOf(e, prev.graces) # 0}
    IN  IF was = {} THEN 0 ELSE CHOOSE e \in was : \A f \in was : f <= e

\* the last step made a new group of the one new event and appended it to a
\* sequence
NewGroup ==
    /\ Len(graces) = Len(prev.graces) + 1
    /\ graces[Len(graces)].events = <<Len(events)>>
    /\ \A g \in 1..Len(prev.graces) : graces[g] = prev.graces[g]
    /\ \E s \in 1..Len(seqs) :
          /\ seqs[s].items # <<>>
          /\ seqs[s].items[Len(seqs[s].items)] = Ref("GraceNoteGroup", Len(graces))

\* C30: a grace note read right after another, with no event, <forward> or
\* <backup> in between, joins the other's GraceNoteGroup at its end; a grace
\* note read after a non-grace event, a <forward> or a <backup> starts a new
\* group; a group is made and appended to a sequence only on reading its first
\* grace event, and no group is empty.
C30_GraceGrouping ==
    /\ (GraceRead /\ LastGrace # 0 /\ LastGrace = Len(prev.events)
           /\ prev.current_grace_note_group # 0) =>
          /\ Len(graces) = Len(prev.graces)
          /\ graces[GroupOf(LastGrace, prev.graces)].events
                = Append(prev.graces[GroupOf(LastGrace, prev.graces)].events, Len(events))
    /\ (GraceRead /\ LastGrace # 0 /\ LastGrace < Len(prev.events)) => NewGroup
    /\ (last.op = "child" /\ last.el.tag \in {"forward", "backup"})
          => current_grace_note_group = 0
    /\ (GraceRead /\ prev.current_grace_note_group = 0) => NewGroup
    /\ Len(graces) # Len(prev.graces) => (GraceRead /\ NewGroup)
    /\ \A g \in 1..Len(graces) : graces[g].events # <<>>

\* ------------------------------------------------ the Score's lookups
\* a + b of two fractions.Fraction values
FractionAdd(a, b) == Fraction(a[1] * b[2] + b[1] * a[2], a[2] * b[2])

\* the sequences of one bar from part p on, in the order of bar.bar_parts.values()
RECURSIVE BarSequences(_, _, _)
BarSequences(r, bar, p) ==
    IF p > Len(r.score_parts) THEN <<>>
    ELSE IF r.score_parts[p].part_id \notin DOMAIN r.bars[bar].bar_parts
         THEN BarSequences(r, bar, p + 1)
    ELSE r.bars[bar].bar_parts[r.score_parts[p].part_id].sequences
            \o BarSequences(r, bar, p + 1)

\* what a lookup gives: the kind of the returned value ("Event",
\* "MeasureRhythmicPosition", "None", "str") or the exception raised
Answer(exc, kind, event, measure, fraction) ==
    [status |-> exc, kind |-> kind, event |-> event, measure |-> measure,
     fraction |-> fraction]

\* the loop over sequence.iter_events() of get_event_measure_rhythmic_position
\* from the i-th yielded event on; "next" when the sequence ends without a match
RECURSIVE PositionInSequence(_, _, _, _, _)
PositionInSequence(r, evs, i, event, metrical_pos) ==
    IF i > Len(evs) THEN "next"
    ELSE IF evs[i] = 0 THEN "AttributeError"
    ELSE IF evs[i] = event THEN "ok"
    ELSE PositionInSequence(r, evs, i + 1, event,
                            FractionAdd(metrical_pos, r.events[evs[i]].duration.frac))

\* metrical_pos at the point where PositionInSequence stops
RECURSIVE MetricalPos(_, _, _, _, _)
MetricalPos(r, evs, i, event, metrical_pos) ==
    IF i > Len(evs) \/ evs[i] = 0 \/ evs[i] = event THEN metrical_pos
    ELSE MetricalPos(r, evs, i + 1, event,
                     FractionAdd(metrical_pos, r.events[evs[i]].duration.frac))

RECURSIVE PositionInBar(_, _, _, _, _)
PositionInBar(r, bar, sequences, i, event) ==
    IF i > Len(sequences) THEN Answer("next", "None", 0, 0, <<0, 1>>)
    ELSE IF PositionInSequence(r, IterEvents(r, r.seqs[sequences[i]].items, 1), 1, event,
                               <<0, 1>>) = "next"
         THEN PositionInBar(r, bar, sequences, i + 1, event)
    ELSE IF PositionInSequence(r, IterEvents(r, r.seqs[sequences[i]].items, 1), 1, event,
                               <<0, 1>>) = "AttributeError"
         THEN Answer("AttributeError", "None", 0, 0, <<0, 1>>)
    ELSE Answer("ok", "MeasureRhythmicPosition", event, bar,
                MetricalPos(r, IterEvents(r, r.seqs[sequences[i]].items, 1), 1, event,
                            <<0, 1>>))

RECURSIVE PositionFromBar(_, _, _)
PositionFromBar(r, bar, event) ==
    IF bar > Len(r.bars) THEN Answer("ok", "str", 0, 0, <<0, 1>>)
    ELSE IF PositionInBar(r, bar, BarSequences(r, bar, 1), 1, event).status = "next"
         THEN PositionFromBar(r, bar + 1, event)
    ELSE PositionInBar(r, bar, BarSequences(r, bar, 1), 1, event)

\* Score.get_event_measure_rhythmic_position; the measure is bar_idx + 1
GetEventMeasureRhythmicPosition(r, event) == PositionFromBar(r, 1, event)

\* Score.get_event_containing_note as a caller sees it
EventContainingNote(r, item) ==
    IF GetEventContainingNote(r, item).status # "ok"
    THEN Answer(GetEventContainingNote(r, item).status, "None", 0, 0, <<0, 1>>)
    ELSE IF GetEventContainingNote(r, item).event = 0 THEN Answer("ok", "None", 0, 0, <<0, 1>>)
    ELSE Answer("ok", "Event", GetEventContainingNote(r, item).event, 0, <<0, 1>>)

NoQuery == [method |-> "", arg |-> Ref("", 0), answer |-> Answer("", "", 0, 0, <<0, 1>>)]

\* read() on a document, after which the caller puts one lookup to the Score
InitLookup ==
    Constructed("part_list", [entry |-> "get_score", file |-> TimewiseFile,
                              reader |-> TRUE, doc |-> AnyDocument, out |-> "none",
                              query |-> NoQuery])

\* the reader's variables, which a lookup leaves alone
Asked(method, arg, answer) ==
    /\ pc' = "asked"
    /\ imp' = [imp EXCEPT !.query = [method |-> method, arg |-> arg, answer |-> answer]]
    /\ last' = Did(method)
    /\ prev' = Tables
    /\ UNCHANGED <<status, score_parts, bars, bar_part, part_idx, position, part_divisions,
                   open_ties, current_beams, open_beams, open_tuplets, current_tuplets,
                   open_slurs, complete_slurs, current_grace_note_group, next_event_id,
                   next_note_id, current_octave_shift, complete_octave_shifts, notes,
                   events, seqs, tuplets, graces, beams, slurs, nelems, beam_loop>>

\* score.get_event_containing_note(item) on the Score that read() has returned,
\* for a Note or Rest of the reader or one more that it never made
CallGetEventContainingNote ==
    /\ pc = "done"
    /\ \E n \in 1..(Len(notes) + 1) : \E k \in {"Note", "Rest"} :
          Asked("get_event_containing_note", Ref(k, n), EventContainingNote(Reader, Ref(k, n)))

\* score.get_event_measure_rhythmic_position(event) on the Score that read() has
\* returned, for an Event of the reader or one more that it never made
CallGetEventMeasureRhythmicPosition ==
    /\ pc = "done"
    /\ \E e \in 1..(Len(events) + 1) :
          Asked("get_event_measure_rhythmic_position", Ref("Event", e),
                GetEventMeasureRhythmicPosition(Reader, e))

DottedNote(step, dots) ==
    NoteEl(<<PitchEl(step, 4), TypeEl("quarter")>> \o [i \in 1..dots |-> [tag |-> "dot"]])

LookupElements ==
    {NoteEl(<<[tag |-> "grace"], PitchEl("B", 4), TypeEl("eighth")>>),
     NoteEl(<<RestEl, TypeEl("quarter")>>),
     DottedNote("C", 0), DottedNote("D", 1),
     TupletNote("D", "1", <<TupletEl("start", "1")>>),
     TupletNote("E", "1", <<TupletEl("stop", "1")>>)}

NextLookup ==
    \/ ParsePartList({PartList(1)})
    \/ ReadChild(LookupElements)
    \/ HandleBeams
    \/ Measures
    \/ CallGetEventContainingNote
    \/ CallGetEventMeasureRhythmicPosition

SpecLookup == InitLookup /\ [][NextLookup]_vars

\* the item of a sequence holds the event: it is the event, a Tuplet with the
\* event among its items, or a GraceNoteGroup with the event among its events
RECURSIVE Within(_, _)
Within(item, e) ==
    IF item.k = "Event" THEN item.id = e
    ELSE IF item.k = "Tuplet"
         THEN \E i \in 1..Len(tuplets[item.id].items) : Within(tuplets[item.id].items[i], e)
    ELSE IF item.k = "GraceNoteGroup" THEN InSeq(e, graces[item.id].events)
    ELSE FALSE

\* the sequence of the Score that holds the event; 0 when none does
SequenceOf(e) ==
    LET held(s) == /\ \E i \in 1..Len(seqs[s].items) : Within(seqs[s].items[i], e)
                   /\ \E b \in 1..Len(bars) : \E p \in DOMAIN bars[b].bar_parts :
                         InSeq(s, bars[b].bar_parts[p].sequences)
    IN  IF e \in 1..Len(events) /\ \E s \in 1..Len(seqs) : held(s)
        THEN CHOOSE s \in 1..Len(seqs) : held(s) ELSE 0

\* the events that hold the item
Holders(item) == {e \in 1..Len(events) : InSeq(item, events[e].event_items)}

AskedFor(method) == pc = "asked" /\ imp.query.method = method

\* C31: for every Note or Rest that the reader has placed into an Event of the
\* Score, also an event inside a GraceNoteGroup or a Tuplet and an event of a
\* sequence that holds a GraceNoteGroup, get_event_containing_note returns
\* exactly that Event; it returns None only for an item held by no event.
C31_NoteLookup ==
    AskedFor("get_event_containing_note") =>
        /\ \A e \in Holders(imp.query.arg) :
              SequenceOf(e) # 0 =>
                 /\ imp.query.answer.status = "ok"
                 /\ imp.query.answer.kind = "Event" /\ imp.query.answer.event = e
        /\ (imp.query.answer.status = "ok" /\ imp.query.answer.kind = "None")
              => Holders(imp.query.arg) = {}

\* the events of a list of sequence items from item i on, in order, those inside
\* a Tuplet or a GraceNoteGroup included
RECURSIVE FlatEvents(_, _)
FlatEvents(items, i) ==
    IF i > Len(items) THEN <<>>
    ELSE (IF items[i].k = "Event" THEN <<items[i].id>>
          ELSE IF items[i].k = "Tuplet" THEN FlatEvents(tuplets[items[i].id].items, 1)
          ELSE IF items[i].k = "GraceNoteGroup" THEN graces[items[i].id].events
          ELSE <<>>) \o FlatEvents(items, i + 1)

Pow2(n) == IF n = 0 THEN 1 ELSE IF n = 1 THEN 2 ELSE IF n = 2 THEN 4 ELSE 8

\* a rhythmic duration's base fraction extended by its dots
Dotted(duration) ==
    Fraction(duration.frac[1] * (Pow2(duration.dots + 1) - 1),
             duration.frac[2] * Pow2(duration.dots))

\* the sum of the dotted durations of the events of evs before event e
RECURSIVE SumBefore(_, _, _)
SumBefore(evs, i, e) ==
    IF i > Len(evs) \/ evs[i] = e THEN <<0, 1>>
    ELSE FractionAdd(Dotted(events[evs[i]].duration), SumBefore(evs, i + 1, e))

\* the one-based number of the bar that holds the sequence
BarOfSequence(s) ==
    CHOOSE b \in 1..Len(bars) : \E p \in DOMAIN bars[b].bar_parts :
        InSeq(s, bars[b].bar_parts[p].sequences)

\* C32: for an event contained in the Score, get_event_measure_rhythmic_position
\* returns the one-based number of the event's bar and the sum of the rhythmic
\* durations, each base fraction extended by its dots, of all events before it
\* in its sequence; for an event not in the Score it returns None.
C32_RhythmicPosition ==
    AskedFor("get_event_measure_rhythmic_position") =>
        /\ imp.query.answer.status = "ok"
        /\ IF SequenceOf(imp.query.arg.id) # 0
           THEN /\ imp.query.answer.kind = "MeasureRhythmicPosition"
                /\ imp.query.answer.measure = BarOfSequence(SequenceOf(imp.query.arg.id))
                /\ imp.query.answer.fraction
                      = SumBefore(FlatEvents(seqs[SequenceOf(imp.query.arg.id)].items, 1), 1,
                                  imp.query.arg.id)
           ELSE imp.query.answer.kind = "None"

\* ------------------------------------------- time signatures and repeats
\* a <time> with the texts of <beats> and <beat-type> and the symbol attribute
TimeWith(beats, beat_type, symbol) ==
    [tag |-> "time", beats |-> beats, beat_type |-> beat_type, symbol |-> symbol]

\* a <barline> around one <repeat>
RepeatEl(direction, times) ==
    [tag |-> "barline",
     children |-> <<[tag |-> "repeat", direction |-> direction, times |-> times]>>]

\* a <barline> around one <ending>
EndingEl(type, number) ==
    [tag |-> "barline", children |-> <<[tag |-> "ending", type |-> type, number |-> number]>>]

TimeElements ==
    {Attributes(<<TimeWith(b, t, s)>>) :
        b \in {TInt(3), TBad, TEmpty, TMissing}, t \in {TInt(8), TBad},
        s \in {"common", "cut", "missing"}}
    \cup {RepeatEl("backward", t) : t \in {TInt(3), TBad, TMissing}}
    \cup {RepeatEl("forward", TMissing), RepeatEl("missing", TInt(3)),
          EndingEl("start", [kind |-> "list", tokens |-> <<TInt(1), TBad, TInt(2)>>]),
          EndingEl("start", [kind |-> "missing", tokens |-> <<>>]),
          EndingEl("stop", [kind |-> "missing", tokens |-> <<>>])}

NextTime ==
    \/ ParsePartList({PartList(1)})
    \/ ReadChild(TimeElements)
    \/ HandleBeams
    \/ Measures

SpecTime == InitReader /\ [][NextTime]_vars

\* the last step read an <attributes> with one <time>, or a <barline> with one
\* backward <repeat>
TimeRead == last.op = "child" /\ last.el.tag = "attributes" /\ last.el.children[1].tag = "time"
BackwardRepeatRead ==
    /\ last.op = "child" /\ last.el.tag = "barline"
    /\ last.el.children[1].tag = "repeat" /\ last.el.children[1].direction = "backward"

\* C33: a <time> with integer beats and beat-type yields that count and unit;
\* with beats or beat-type missing or no integer the result is 4/4 when the
\* element is marked symbol="common" and a NotationDataError otherwise; a
\* backward repeat with missing or non-integer times records the count 2.
C33_TimeParsing ==
    /\ TimeRead =>
          IF last.el.children[1].beats.kind = "int" /\ last.el.children[1].beat_type.kind = "int"
          THEN /\ status = "ok"
               /\ bars[Len(bars)].timesig
                     = <<last.el.children[1].beats.val, last.el.children[1].beat_type.val>>
          ELSE IF last.el.children[1].symbol = "common"
               THEN status = "ok" /\ bars[Len(bars)].timesig = <<4, 4>>
          ELSE status = "NotationDataError"
    /\ (BackwardRepeatRead /\ last.el.children[1].times.kind # "int") =>
          status = "ok" /\ bars[Len(bars)].end_repeat = 2

\* a <time> without beats and one with a non-integer beat-type were read, one
\* as 4/4 and one as an error, and so was a backward repeat without times
C33_Witness ==
    /\ TimeRead /\ last.el.children[1].beat_type.kind = "bad"
    /\ last.el.children[1].symbol = "cut" /\ status = "NotationDataError"
    /\ bars[Len(bars)].end_repeat = 2
    /\ Len(bars) = 2 /\ bars[1].timesig = <<4, 4>>

\* ---------------------------------------------- keys of transposing parts
\* a <score-part> whose first measure has a <transpose> with the two texts
TransposingPart(chromatic, octave_change) ==
    [has_id |-> TRUE, transpose |-> [chromatic |-> chromatic, octave_change |-> octave_change]]

KeyPartLists ==
    {<<TransposingPart(TInt(c), o)>> : c \in -6..5, o \in {TMissing, TInt(-1)}}

KeyElements == {Attributes(<<KeyEl(TInt(f))>>) : f \in -7..7}

NextKey ==
    \/ ParsePartList(KeyPartLists)
    \/ ReadChild(KeyElements)
    \/ HandleBeams
    \/ Measures

SpecKey == InitReader /\ [][NextKey]_vars

\* the pitch class of the tonic of the major key with the fifths
TonicClass(fifths) == (7 * fifths) % NUM_PITCHES_IN_OCTAVE

KeyRead == last.op = "child" /\ last.el.tag = "attributes" /\ last.el.children[1].tag = "key"

\* C34: for every written key with fifths in -7..7 and every transposition t of
\* the part, parsing the key does not fail and stores a KeySignature with fifths
\* in -7..7 whose tonic pitch class is the written one plus t, modulo 12; with
\* t = 0 the stored fifths are the written fifths.
C34_KeyToConcert ==
    (KeyRead /\ last.el.children[1].fifths.kind = "int"
             /\ last.el.children[1].fifths.val \in -7..7) =>
        /\ status = "ok"
        /\ bars[Len(bars)].keysig.some
        /\ bars[Len(bars)].keysig.fifths \in -7..7
        /\ TonicClass(bars[Len(bars)].keysig.fifths)
              = (TonicClass(last.el.children[1].fifths.val) + Part.transpose)
                   % NUM_PITCHES_IN_OCTAVE
        /\ Part.transpose = 0 => bars[Len(bars)].keysig.fifths = last.el.children[1].fifths.val

\* the key of seven sharps was read in a part that sounds thirteen semitones
\* lower, and stored as the key of no sharp or flat
C34_Witness ==
    /\ KeyRead /\ last.el.children[1].fifths.val = 7 /\ Part.transpose = -13
    /\ status = "ok" /\ bars[Len(bars)].keysig.fifths = 0

\* ------------------------------------------------- pitches and keys alone
MaxMidiNumber == 127
MaxSemitones == 13

\* one call on a Pitch or a KeySignature, with its arguments and, once it has
\* returned, its result: the Pitch, that Pitch's midi_number(), the fifths
PitchCall(call, midi_number, prefer_flat, pitch, semitones, fifths) ==
    [entry |-> "score", call |-> call, midi_number |-> midi_number,
     prefer_flat |-> prefer_flat, pitch |-> pitch, semitones |-> semitones,
     fifths |-> fifths, result |-> [status |-> "", pitch |-> NonePitch, number |-> 0,
                                     fifths |-> 0]]

PitchCalls ==
    {PitchCall("from_midi_number", m, f, NonePitch, 0, 0) :
        m \in 0..MaxMidiNumber, f \in BOOLEAN}
    \cup {PitchCall("transpose_chromatic", 0, TRUE, Pitch(step, octave, alter), s, 0) :
            step \in {"A", "B", "C", "D", "E", "F", "G"}, octave \in {-1, 4, 9},
            alter \in -2..2, s \in -MaxSemitones..MaxSemitones}
    \cup {PitchCall("from_pitch", 0, TRUE, NonePitch, 0, f) : f \in -7..7}

InitPitch == \E call \in PitchCalls : Constructed("call", call)

Returned(result) ==
    /\ pc' = "returned"
    /\ imp' = [imp EXCEPT !.result = result]
    /\ last' = Did(imp.call)
    /\ prev' = Tables
    /\ UNCHANGED <<status, score_parts, bars, bar_part, part_idx, position, part_divisions,
                   open_ties, current_beams, open_beams, open_tuplets, current_tuplets,
                   open_slurs, complete_slurs, current_grace_note_group, next_event_id,
                   next_note_id, current_octave_shift, complete_octave_shifts, notes,
                   events, seqs, tuplets, graces, beams, slurs, nelems, beam_loop>>

\* Pitch.from_midi_number(m, prefer_flat), and midi_number() of what it returns
CallFromMidiNumber ==
    /\ pc = "call" /\ imp.call = "from_midi_number"
    /\ Returned([status |-> "ok",
                 pitch |-> FromMidiNumber(imp.midi_number, imp.prefer_flat),
                 number |-> MidiNumber(FromMidiNumber(imp.midi_number, imp.prefer_flat)),
                 fifths |-> 0])

\* p.transpose_chromatic(s), and midi_number() of what it returns
CallTransposeChromatic ==
    /\ pc = "call" /\ imp.call = "transpose_chromatic"
    /\ Returned([status |-> "ok",
                 pitch |-> PitchTransposeChromatic(imp.pitch, imp.semitones),
                 number |-> MidiNumber(PitchTransposeChromatic(imp.pitch, imp.semitones)),
                 fifths |-> 0])

\* KeySignature.from_pitch(KeySignature(f).pitch())
CallFromPitch ==
    /\ pc = "call" /\ imp.call = "from_pitch"
    /\ Returned([status |-> KeySignatureFromPitch(KeySignaturePitch(imp.fifths)).status,
                 pitch |-> KeySignaturePitch(imp.fifths), number |-> 0,
                 fifths |-> KeySignatureFromPitch(KeySignaturePitch(imp.fifths)).fifths])

NextPitch == CallFromMidiNumber \/ CallTransposeChromatic \/ CallFromPitch

SpecPitch == InitPitch /\ [][NextPitch]_vars

\* the number of semitones of a pitch above C-1, from its step, octave and alter
Semitones(p) ==
    (12 * (p.octave + 1)) + p.alter
      + (CASE p.step = "C" -> 0 [] p.step = "D" -> 2 [] p.step = "E" -> 4 [] p.step = "F" -> 5
           [] p.step = "G" -> 7 [] p.step = "A" -> 9 [] p.step = "B" -> 11)

\* C35: for every MIDI number m and both values of prefer_flat,
\* Pitch.from_midi_number(m).midi_number() is m and the result has a step in
\* A..G with an alter in {-1, 0, 1}; for every pitch p and semitone count s,
\* p.transpose_chromatic(s).midi_number() is p.midi_number() + s; for every
\* fifths f in -7..7, KeySignature.from_pitch(KeySignature(f).pitch()) has
\* fifths f.
C35_RoundTrips ==
    pc = "returned" =>
        /\ imp.call = "from_midi_number" =>
              /\ imp.result.number = imp.midi_number
              /\ Semitones(imp.result.pitch) = imp.midi_number
              /\ imp.result.pitch.step \in {"A", "B", "C", "D", "E", "F", "G"}
              /\ imp.result.pitch.alter \in {-1, 0, 1}
        /\ imp.call = "transpose_chromatic" =>
              /\ imp.result.number = Semitones(imp.pitch) + imp.semitones
              /\ Semitones(imp.result.pitch) = Semitones(imp.pitch) + imp.semitones
        /\ imp.call = "from_pitch" =>
              imp.result.status = "ok" /\ imp.result.fifths = imp.fifths

\* E sharp 4 was transposed down by thirteen semitones to E 3
C35_Witness ==
    /\ pc = "returned" /\ imp.call = "transpose_chromatic"
    /\ imp.pitch = Pitch("E", 4, 1) /\ imp.semitones = -13
    /\ imp.result.pitch = Pitch("E", 3, 0) /\ imp.result.number = 52

\* -------------------------------------------------- references of the Score
RefElements ==
    {NoteEl(<<PitchEl("C", 4), TypeEl("quarter")>>),
     TieNote("D", <<"start">>), TieNote("D", <<"stop">>),
     NoteEl(<<RestEl, PitchEl("D", 4), TypeEl("quarter"), Notations(<<Tied("stop")>>)>>),
     SlurNote("D", <<SlurEl("start", TInt(1))>>),
     SlurNote("E", <<SlurEl("stop", TInt(1))>>),
     SlurNote("D", <<SlurEl("start", TInt(1)), SlurEl("start", TInt(2))>>),
     SlurNote("E", <<SlurEl("stop", TInt(1)), SlurEl("stop", TInt(2))>>)}

NextRef ==
    \/ ParsePartList({PartList(1)})
    \/ ReadChild(RefElements)
    \/ HandleBeams
    \/ Measures

SpecRef == InitReader /\ [][NextRef]_vars

\* the Notes and Events that the Score contains: a Note in an event of one of
\* the Score's sequences, an Event in one of the Score's sequences
NotesOfScore == {n \in 1..Len(notes) : \E e \in 1..Len(events) : HoldsNote(e, n) /\ SequenceOf(e) # 0}
EventsOfScore == {e \in 1..Len(events) : SequenceOf(e) # 0}

\* the id is that of a Note, or of an Event, of the Score that is flagged as
\* referenced
ReferencedNote(note_id) ==
    \E n \in NotesOfScore : notes[n].note_id = note_id /\ notes[n].is_referenced
ReferencedEvent(event_id) ==
    \E e \in EventsOfScore : events[e].event_id = event_id /\ events[e].is_referenced

\* C36: in every Score that read() returns, the tie target recorded on a tie's
\* start note, the end event id of a complete slur and a slur's explicit start
\* and end note ids are each the id of a Note or Event that the Score contains
\* and whose is_referenced flag is true.
C36_ReferentialIntegrity ==
    pc = "done" =>
        /\ \A n \in NotesOfScore :
              notes[n].tie_end_note # 0 => ReferencedNote(notes[n].tie_end_note)
        /\ \A e \in EventsOfScore : \A k \in 1..Len(events[e].slurs) :
              /\ slurs[events[e].slurs[k]].end_event_id # 0
                    => ReferencedEvent(slurs[events[e].slurs[k]].end_event_id)
              /\ slurs[events[e].slurs[k]].start_note # 0
                    => ReferencedNote(slurs[events[e].slurs[k]].start_note)
              /\ slurs[events[e].slurs[k]].end_note # 0
                    => ReferencedNote(slurs[events[e].slurs[k]].end_note)

\* ------------------------------------------ the id of a <part> in a measure
\* read() on a document whose <part> elements carry an id; imp.part_id is the
\* id attribute of the <part> that parse_measure_part is working on
InitPartId ==
    Constructed("part_list", [entry |-> "get_score", file |-> TimewiseFile,
                              reader |-> TRUE, doc |-> AnyDocument, out |-> "none",
                              part_id |-> 0])

\* parse_measures, lines 279-280, and parse_measure_part, lines 283-285, on a
\* <part id=X>: the part is taken by the position of the element, and the id
\* attribute is not read
BeginMeasurePartWithId ==
    /\ pc = "measure" /\ part_idx < MaxMeasureParts /\ MoreMeasureParts
    /\ IF part_idx + 1 > Len(score_parts)
       THEN Step(Raise(Reader, "IndexError"), "children", Did("part"))
       ELSE Step([Reader EXCEPT !.bar_part = NoBarPart, !.position = 0],
                 "children", Did("part"))
    /\ part_idx' = part_idx + 1
    /\ \E X \in 1..MaxParts : imp' = [imp EXCEPT !.part_id = X]
    /\ UNCHANGED <<nelems, beam_loop>>

PartIdLists ==
    {<<TransposingPart(TMissing, TMissing)>>,
     <<TransposingPart(TMissing, TMissing), TransposingPart(TInt(2), TMissing)>>,
     <<TransposingPart(TInt(-3), TMissing), TransposingPart(TMissing, TMissing)>>}

PartIdElements ==
    {NoteEl(<<PitchEl("C", 4), TypeEl("quarter")>>),
     Attributes(<<DivisionsEl(TInt(2))>>), Attributes(<<DivisionsEl(TInt(4))>>),
     Attributes(<<KeyEl(TInt(0))>>), Attributes(<<KeyEl(TInt(-1))>>)}

NextPartId ==
    \/ ParsePartList(PartIdLists)
    \/ ReadChild(PartIdElements)
    \/ BeginMeasure
    \/ BeginMeasurePartWithId
    \/ EndChildren
    \/ HandleSlurs
    \/ HandleTuplets
    \/ HandleBeams
    \/ HandleOctaveShifts
    \/ EndMeasure
    \/ Return

SpecPartId == InitPartId /\ [][NextPartId]_vars

\* the <part> being read names a part that the part-list declares
DeclaredPartRead == status = "ok" /\ imp.part_id \in 1..Len(score_parts)

\* C37: the content of each <part id=X> inside a measure is stored in that
\* bar's BarPart keyed by X, and is read with the divisions and the
\* transposition of the declared part X, whatever the order of the <part>
\* elements inside the measure.
C37_PartIdentity ==
    /\ (last.op = "bar_part" /\ DeclaredPartRead) =>
          /\ score_parts[imp.part_id].part_id \in DOMAIN bars[Len(bars)].bar_parts
          /\ bars[Len(bars)].bar_parts[score_parts[imp.part_id].part_id] = bar_part
    /\ (last.op = "child" /\ last.el.tag = "attributes" /\ DeclaredPartRead) =>
          /\ last.el.children[1].tag = "divisions" =>
                /\ score_parts[imp.part_id].part_id \in DOMAIN part_divisions
                /\ part_divisions[score_parts[imp.part_id].part_id]
                      = last.el.children[1].digits.val
          /\ last.el.children[1].tag = "key" =>
                bars[Len(bars)].keysig.fifths
                   = KeySignatureToConcert(last.el.children[1].fifths.val,
                                           score_parts[imp.part_id].transpose).fifths

\* C38: every grace event is in a GraceNoteGroup that is an item of the
\* sequence of the grace note's own voice, in the bar and the part in which the
\* note was read; a grace note never joins a group made in another voice,
\* another part or an earlier measure.
C38_GraceOwnVoice ==
    GraceRead =>
        /\ GroupOf(Len(events), graces) # 0
        /\ \E i \in 1..Len(bar_part.sequences) :
              /\ seqs[bar_part.sequences[i]].sequence_id
                    = VoiceIdFrom(last.el.children, Len(last.el.children))
              /\ InSeq(Ref("GraceNoteGroup", GroupOf(Len(events), graces)),
                       seqs[bar_part.sequences[i]].items)

\* ---------------------------------------------- what finalization leaves
DrainElements ==
    {SlurNote("D", <<SlurEl("start", TInt(1))>>),
     SlurNote("F", <<SlurEl("start", TInt(2))>>),
     SlurNote("E", <<SlurEl("stop", TInt(1))>>),
     TupletNote("D", "1", <<TupletEl("start", "1")>>),
     TupletNote("E", "1", <<TupletEl("stop", "1")>>),
     BeamNote(<<BeamEl(1, "begin")>>), BeamNote(<<BeamEl(1, "end")>>),
     OctaveShiftEl("up", "missing"), OctaveShiftEl("stop", "missing")}

NextDrain ==
    \/ ParsePartList({PartList(1)})
    \/ ReadChild(DrainElements)
    \/ HandleBeams
    \/ Measures

SpecDrain == InitReader /\ [][NextDrain]_vars

\* the lists that finalization works off
Drained ==
    /\ complete_slurs = <<>> /\ current_tuplets = <<>>
    /\ current_beams = <<>> /\ complete_octave_shifts = <<>>

\* a measure-part pass has just completed without error
PassDone == last.op = "octave_shifts" /\ status = "ok"

\* the events whose slur list holds the slur, and the places, among the items of
\* the sequences and of the Tuplets, where the event is an item
SlurHolders(k) == {e \in 1..Len(events) : InSeq(k, events[e].slurs)}
Times(s, x) == Cardinality({i \in 1..Len(s) : s[i] = x})
EventPlaces ==
    {<<"Sequence", s, i>> : s \in 1..Len(seqs), i \in 1..MaxElems}
    \cup {<<"Tuplet", t, i>> : t \in 1..Len(tuplets), i \in 1..MaxElems}
PlacesOf(e) ==
    {p \in EventPlaces :
        LET items == IF p[1] = "Sequence" THEN seqs[p[2]].items ELSE tuplets[p[2]].items
        IN  p[3] <= Len(items) /\ items[p[3]] = Ref("Event", e)}

\* C39: whenever a measure-part pass completes without error, the completed
\* slurs, the closed tuplets, the collected beam markers and the completed
\* octave shifts are all empty, so that the next pass starts with none of them:
\* every completed slur is in the slur list of one event, once, every closed
\* tuplet is folded into one Tuplet, and no slur or event is placed twice; the
\* open tables are what carries over.
C39_FinalizationDrains ==
    /\ PassDone => Drained
    /\ (last.op = "part" /\ status = "ok") => Drained
    /\ (last.op = "slurs" /\ status = "ok") =>
          \A i \in 1..Len(prev.complete_slurs) :
              SlurHolders(prev.complete_slurs[i].slur) # {}
    /\ (last.op = "tuplets" /\ status = "ok") =>
          \A i \in 1..Len(prev.current_tuplets) :
              \E t \in 1..Len(tuplets) :
                  /\ tuplets[t].ratio = prev.current_tuplets[i].ratio
                  /\ InSeq(Ref("Event", prev.current_tuplets[i].event_list[1]),
                           tuplets[t].items)
    /\ status = "ok" =>
          /\ \A k \in 1..Len(slurs) :
                /\ Cardinality(SlurHolders(k)) <= 1
                /\ \A e \in SlurHolders(k) : Times(events[e].slurs, k) = 1
          /\ \A e \in 1..Len(events) : Cardinality(PlacesOf(e)) <= 1

\* the pass over the second measure has completed: a slur that the first
\* measure had left open was applied in it, and another slur is still open
C39_Witness ==
    /\ PassDone /\ open_slurs # <<>>
    /\ \E k \in 1..Len(slurs) : SlurHolders(k) # {}
    /\ Len(bars) = 2
====
